---- MODULE Spec2Model ----
(***************************************************************************)
(* State listening for a key-value store (cosmos-sdk, store/listenkv and   *)
(* store/types): the permission filter of a Listener, the listening Store  *)
(* that wraps a parent KVStore, the channel-backed StateListener and the   *)
(* FileStreamer that multiplexes listener output to destination sinks.     *)
(*                                                                         *)
(* Three specifications share the variables:                               *)
(*   SpecFilter  - a Listener is configured and Allowed is called on it    *)
(*   SpecStore   - calls are issued through the listening Store            *)
(*   SpecStream  - sources, destinations, Stream, Write and Close          *)
(* Byte slices are sequences of small naturals.                            *)
(***************************************************************************)
EXTENDS Integers, Sequences, FiniteSets, TLC

\* ------------------------------------------------------------------------
\* Bounds of the model
\* ------------------------------------------------------------------------

\* total number of entries in the four key/prefix lists of a listener
MaxEntries == 2

\* keys and prefixes handed to the filter; <<1, 1>> plays "acct:alice",
\* <<1, 2>> plays "acct:bob", <<1>> their common prefix "acct:"
FilterKeys == {<<>>, <<1>>, <<1, 1>>, <<1, 2>>}

\* ------------------------------------------------------------------------
\* store/types/tracing.go: operations
\* ------------------------------------------------------------------------

WriteOp == "write"

ReadOp == "read"

DeleteOp == "delete"

IterKeyOp == "iterKey"

IterValueOp == "iterValue"

Operations == {WriteOp, ReadOp, DeleteOp, IterKeyOp, IterValueOp}

VARIABLES
    lst,        \* the Listener under configuration (filter fields)
    call,       \* the last Allowed call made on lst and what each version returned
    version,    \* which Store was built: "listen" (types.Listener) or "write" (WriteListener)
    listeners,  \* the listeners handed to NewStore
    parent,     \* the wrapped KVStore: key -> value, NilBytes when absent
    direct,     \* a copy of the wrapped store that gets the same calls directly
    cur,        \* the cursor obtained through the Store
    dcur,       \* the cursor obtained from the copy directly
    args,       \* the key and value the last call through the Store was given
    ret,        \* what the last call through the Store returned
    dret,       \* what the same call returned on the copy
    trace,      \* the steps the last call through the Store took, in order
    emitted,    \* per listener, the chunks its writer accepted during the last call
    sources,      \* FileStreamer.sources: path -> emitters, in the order added
    destinations, \* FileStreamer.destinations: path -> sinks, in the order added
    streaming,    \* Stream was called
    quitClosed,   \* fs.quitChan is closed
    wloop,        \* per path, the writeLoop goroutine: position, bytes held, destination index
    lloop,        \* per emitter, the listenLoop goroutine: position, path, bytes held
    wg,           \* the counter of the caller's sync.WaitGroup
    sink,         \* per sink, the Write calls it got, whether Close() was called on it, writes after Close
    closer,       \* the position of the Close call, the sinks it has yet to close, what it found
    attempts,     \* number of Write calls made on the emitters
    wres,         \* the last Write on an emitter and what it returned
    accepted,     \* per emitter, the bytes of the Writes that returned no error
    taken,        \* per emitter, the bytes received from Output()
    flaky,        \* the sinks whose Write and Close may return an error
    enc,          \* one OnWrite call on a write listener: key, value and the Write calls made
    dec,          \* one Decode call on the bank tableDecoder: key, value and what it returned
    AllOperations, \* the package-level map AllOperations: the operations it holds
    made,         \* the Listeners built by the two constructors, and the map each one holds
    tsl           \* a TransformingStateListener: its transformers and the last Write on it

filterVars == <<lst, call>>

storeVars == <<version, listeners, parent, direct, cur, dcur, args, ret, dret, trace, emitted>>

streamVars == <<sources, destinations, streaming, quitClosed, wloop, lloop, wg, sink, closer,
                attempts, wres, accepted, taken, flaky>>

encVars == <<enc>>

decVars == <<dec>>
regVars == <<AllOperations, made>>
tslVars == <<tsl>>

vars == <<lst, call, version, listeners, parent, direct, cur, dcur, args, ret, dret, trace, emitted,
          sources, destinations, streaming, quitClosed, wloop, lloop, wg, sink, closer,
          attempts, wres, accepted, taken, flaky, enc, dec, AllOperations, made, tsl>>

\* ------------------------------------------------------------------------
\* bytes.Equal / bytes.HasPrefix
\* ------------------------------------------------------------------------

Range(s) == {s[i] : i \in 1..Len(s)}

BytesEqual(a, b) == a = b

BytesHasPrefix(s, p) == Len(p) <= Len(s) /\ SubSeq(s, 1, Len(p)) = p

\* ------------------------------------------------------------------------
\* store/types/tracing.go: Listener.Allowed and listsContains
\* ------------------------------------------------------------------------

RECURSIVE AnyEqualFrom(_, _, _)
AnyEqualFrom(list, key, i) ==
    IF i > Len(list) THEN FALSE
    ELSE IF BytesEqual(key, list[i]) THEN TRUE
    ELSE AnyEqualFrom(list, key, i + 1)

RECURSIVE AnyPrefixFrom(_, _, _)
AnyPrefixFrom(list, key, i) ==
    IF i > Len(list) THEN FALSE
    ELSE IF BytesHasPrefix(key, list[i]) THEN TRUE
    ELSE AnyPrefixFrom(list, key, i + 1)

\* mutant: the prefix loop is missing
listsContainsKeysOnly(keys, prefixes, key) == AnyEqualFrom(keys, key, 1)

listsContains(keys, prefixes, key) ==
    IF AnyEqualFrom(keys, key, 1) THEN TRUE
    ELSE AnyPrefixFrom(prefixes, key, 1)

\* mutant: the blacklists are not consulted
AllowedNoBlacklist(l, op, key) ==
    IF op \notin l.ops THEN FALSE
    ELSE IF Len(l.wk) > 0 \/ Len(l.wp) > 0
         THEN listsContains(l.wk, l.wp, key)
         ELSE TRUE

\* mutant: the whitelists are consulted even when both are empty
AllowedEmptyDenies(l, op, key) ==
    IF op \notin l.ops THEN FALSE
    ELSE listsContains(l.wk, l.wp, key)
         /\ ~listsContains(l.bk, l.bp, key)

Allowed(l, op, key) ==
    IF op \notin l.ops THEN FALSE
    ELSE LET allowed == IF Len(l.wk) > 0 \/ Len(l.wp) > 0
                        THEN listsContains(l.wk, l.wp, key)
                        ELSE TRUE
         IN allowed /\ ~listsContains(l.bk, l.bp, key)

\* ------------------------------------------------------------------------
\* the Listener of the Listening interface: Allowed and listsContain
\* ------------------------------------------------------------------------

listsContain(keys, prefixes, key) ==
    IF AnyEqualFrom(keys, key, 1) THEN TRUE
    ELSE AnyPrefixFrom(prefixes, key, 1)

ListenerAllowed(l, op, key) ==
    IF op \notin l.ops THEN FALSE
    ELSE LET allowed == IF Len(l.wk) > 0 \/ Len(l.wp) > 0
                        THEN listsContain(l.wk, l.wp, key)
                        ELSE TRUE
         IN allowed /\ ~listsContain(l.bk, l.bp, key)

\* ------------------------------------------------------------------------
\* the key-only Listener: Allowed(key) built on listsContains
\* ------------------------------------------------------------------------

AllowedKey(l, key) ==
    LET allowed == IF Len(l.wk) > 0 \/ Len(l.wp) > 0
                   THEN listsContains(l.wk, l.wp, key)
                   ELSE TRUE
    IN allowed /\ ~listsContains(l.bk, l.bp, key)

\* ------------------------------------------------------------------------
\* the key-only Listener built on byteSliceContains
\* ------------------------------------------------------------------------

RECURSIVE ContainsFrom(_, _, _, _)
ContainsFrom(slice, key, usePrefix, i) ==
    IF i > Len(slice) THEN FALSE
    ELSE IF (IF usePrefix THEN BytesHasPrefix(key, slice[i])
                          ELSE BytesEqual(key, slice[i]))
         THEN TRUE
         ELSE ContainsFrom(slice, key, usePrefix, i + 1)

\* doesMatch is bytes.Equal (usePrefix = FALSE) or bytes.HasPrefix (TRUE)
byteSliceContains(slice, key, usePrefix) == ContainsFrom(slice, key, usePrefix, 1)

\* each assignment replaces the value computed by the one before it
AllowedByteSlice(l, key) ==
    LET allowed0 == TRUE
        allowed1 == IF Len(l.wk) > 0
                    THEN byteSliceContains(l.wk, key, FALSE) ELSE allowed0
        allowed2 == IF Len(l.wp) > 0
                    THEN byteSliceContains(l.wp, key, TRUE) ELSE allowed1
        disallowed1 == byteSliceContains(l.bk, key, FALSE)
        disallowed2 == byteSliceContains(l.bp, key, TRUE)
    IN allowed2 /\ ~disallowed2

\* ------------------------------------------------------------------------
\* The wrapped KVStore (types.KVStore, an interface the Store is handed)
\* ------------------------------------------------------------------------

\* a nil byte slice; len(nil) = 0 and base64 of nil is the empty string
NilBytes == <<>>

\* keys passed to the Store; the empty key is the invalid one
StoreKeys == {<<>>, <<1>>, <<2, 3>>}

StoreValues == {<<7>>, <<8, 9, 10>>}

\* bounds of a cursor's domain; NilBytes leaves the side open
DomainBounds == {NilBytes, <<2>>}

\* types.AssertValidKey: the key-validity rule of the store
KeyValid(key) == Len(key) > 0

ValidKeys == {k \in StoreKeys : KeyValid(k)}

EmptyStore == [k \in ValidKeys |-> NilBytes]

\* byte-wise lexicographic order, the order of a KVStore's keys
RECURSIVE BytesLess(_, _)
BytesLess(a, b) ==
    IF Len(b) = 0 THEN FALSE
    ELSE IF Len(a) = 0 THEN TRUE
    ELSE IF a[1] < b[1] THEN TRUE
    ELSE IF a[1] > b[1] THEN FALSE
    ELSE BytesLess(Tail(a), Tail(b))

RECURSIVE SortedKeys(_)
SortedKeys(S) ==
    IF S = {} THEN <<>>
    ELSE LET m == CHOOSE x \in S : \A y \in S \ {x} : BytesLess(x, y)
         IN <<m>> \o SortedKeys(S \ {m})

Reverse(s) == [i \in 1..Len(s) |-> s[Len(s) + 1 - i]]

\* the keys a cursor over [start, end) visits, in the order it visits them
CursorKeys(st, c) ==
    LET inDomain == {k \in ValidKeys :
                        /\ st[k] # NilBytes
                        /\ c.start = NilBytes \/ ~BytesLess(k, c.start)
                        /\ c.end = NilBytes \/ BytesLess(k, c.end)}
        asc == SortedKeys(inDomain)
    IN IF c.ascending THEN asc ELSE Reverse(asc)

NoCursor == [open |-> FALSE, start |-> NilBytes, end |-> NilBytes, ascending |-> TRUE, pos |-> 1]

\* the result of a call: the bytes or the boolean it returned, or a panic
Returned(name, bytes, ok) == [name |-> name, bytes |-> bytes, ok |-> ok, panic |-> FALSE]

Panicked(name) == [name |-> name, bytes |-> NilBytes, ok |-> FALSE, panic |-> TRUE]

NoReturn == Returned("none", NilBytes, FALSE)

\* the arguments of a call; NilBytes where it takes none
Args(key, value) == [key |-> key, value |-> value]

NoArgs == Args(NilBytes, NilBytes)

\* KVStore.Get / Has / Set / Delete of the wrapped store: [st, ret]
ParentGet(st, key) ==
    IF ~KeyValid(key) THEN [st |-> st, ret |-> Panicked("Get")]
    ELSE [st |-> st, ret |-> Returned("Get", st[key], FALSE)]

ParentHas(st, key) ==
    IF ~KeyValid(key) THEN [st |-> st, ret |-> Panicked("Has")]
    ELSE [st |-> st, ret |-> Returned("Has", NilBytes, st[key] # NilBytes)]

ParentSet(st, key, value) ==
    IF ~KeyValid(key) THEN [st |-> st, ret |-> Panicked("Set")]
    ELSE [st |-> [st EXCEPT ![key] = value], ret |-> Returned("Set", NilBytes, FALSE)]

ParentDelete(st, key) ==
    IF ~KeyValid(key) THEN [st |-> st, ret |-> Panicked("Delete")]
    ELSE [st |-> [st EXCEPT ![key] = NilBytes], ret |-> Returned("Delete", NilBytes, FALSE)]

\* KVStore.Iterator / ReverseIterator of the wrapped store: the new cursor
ParentIterator(start, end) ==
    [open |-> TRUE, start |-> start, end |-> end, ascending |-> TRUE, pos |-> 1]

ParentReverseIterator(start, end) ==
    [open |-> TRUE, start |-> start, end |-> end, ascending |-> FALSE, pos |-> 1]

\* Iterator.Valid / Next / Key / Value / Close of the wrapped store: [c, ret]
ParentValid(st, c) ==
    [c |-> c, ret |-> Returned("Valid", NilBytes, c.pos <= Len(CursorKeys(st, c)))]

ParentNext(st, c) ==
    IF c.pos > Len(CursorKeys(st, c)) THEN [c |-> c, ret |-> Panicked("Next")]
    ELSE [c |-> [c EXCEPT !.pos = @ + 1], ret |-> Returned("Next", NilBytes, FALSE)]

ParentKey(st, c) ==
    IF c.pos > Len(CursorKeys(st, c)) THEN [c |-> c, ret |-> Panicked("Key")]
    ELSE [c |-> c, ret |-> Returned("Key", CursorKeys(st, c)[c.pos], FALSE)]

ParentValue(st, c) ==
    IF c.pos > Len(CursorKeys(st, c)) THEN [c |-> c, ret |-> Panicked("Value")]
    ELSE [c |-> c, ret |-> Returned("Value", st[CursorKeys(st, c)[c.pos]], FALSE)]

ParentClose(st, c) ==
    [c |-> [c EXCEPT !.open = FALSE], ret |-> Returned("Close", NilBytes, FALSE)]

\* Iterator.Domain: the two bounds the cursor was made with
ParentDomain(st, c) ==
    [c |-> c,
     ret |-> [name |-> "Domain", bytes |-> c.start, end |-> c.end, ok |-> FALSE,
              panic |-> FALSE]]

\* Iterator.Error: the wrapped cursor's error; a cursor over a map held in
\* memory has none (ok)
ParentError(st, c) == [c |-> c, ret |-> Returned("Error", NilBytes, TRUE)]

\* ------------------------------------------------------------------------
\* encoding/base64 and encoding/binary
\* ------------------------------------------------------------------------

\* base64.StdEncoding.EncodeToString: sextets 0..63, 64 is the padding '='
RECURSIVE EncodeToString(_)
EncodeToString(b) ==
    IF Len(b) = 0 THEN <<>>
    ELSE IF Len(b) = 1
         THEN <<b[1] \div 4, (b[1] % 4) * 16, 64, 64>>
    ELSE IF Len(b) = 2
         THEN <<b[1] \div 4, (b[1] % 4) * 16 + b[2] \div 16, (b[2] % 16) * 4, 64>>
    ELSE <<b[1] \div 4, (b[1] % 4) * 16 + b[2] \div 16,
           (b[2] % 16) * 4 + b[3] \div 64, b[3] % 64>>
         \o EncodeToString(SubSeq(b, 4, Len(b)))

MaxUint16 == 65535

\* a Go int, which holds more than 32 bits: <<hi, lo>> is hi * 65536 + lo
Wide(n) == <<n \div 65536, n % 65536>>

WideGreater(a, b) == a[1] > b[1] \/ (a[1] = b[1] /\ a[2] > b[2])

\* math.MaxUint32 = 65535 * 65536 + 65535
MaxUint32 == <<MaxUint16, MaxUint16>>

\* binary.BigEndian.PutUint16 / PutUint32; uint16(n) keeps the low 16 bits
\* of n and uint32(n) the low 32
PutUint16(n) == <<(n \div 256) % 256, n % 256>>

PutUint32(w) == PutUint16(w[1] % 65536) \o PutUint16(w[2])

\* a byte slice: its length and its bytes, as len() and the writer see them
Slice(b) == [len |-> Wide(Len(b)), bytes |-> b]

\* a slice of zero bytes too long to spell out: it carries no bytes here
ZeroSlice(n) == [len |-> n, bytes |-> <<>>]

\* ------------------------------------------------------------------------
\* Writers and what a call leaves behind
\* ------------------------------------------------------------------------

\* what a listener's io.Writer does with the chunks of one record:
\* it takes them all, or fails the first, or fails the last
WriterOutcomes == {"ok", "firstErr", "lastErr"}

NewlineByte == 10

NoObject == [operation |-> "", key |-> <<>>, value |-> <<>>, metadata |-> ""]

\* a chunk handed to Write: raw bytes, or the text of one JSON object
BytesChunk(b) == [bytes |-> b, json |-> FALSE, object |-> NoObject]

JSONChunk(obj) == [bytes |-> <<>>, json |-> TRUE, object |-> obj]

Step(name, listener, err, held) ==
    [step |-> name, listener |-> listener, err |-> err, held |-> held]

\* one Write of chunk number n (of total) to listener i's writer
WriteFails(outcome, n, total) ==
    \/ outcome = "firstErr" /\ n = 1
    \/ outcome = "lastErr" /\ n = total

\* the running state of an emit loop
Emitting(tr, em) == [trace |-> tr, emitted |-> em, panic |-> FALSE]

\* Writer.Write(chunk) by listener i as chunk n of total; held is what the
\* wrapped store holds for the call's key at that moment
WriterWrite(acc, i, chunk, n, total, outcome, held) ==
    IF WriteFails(outcome, n, total)
    THEN [acc EXCEPT !.trace = Append(@, Step("write", i, TRUE, held))]
    ELSE [acc EXCEPT !.trace = Append(@, Step("write", i, FALSE, held)),
                     !.emitted[i] = Append(@, chunk)]

LastWriteFailed(acc) == acc.trace[Len(acc.trace)].err

\* what the wrapped store holds for key (nothing for a key it cannot hold)
Held(st, key) == IF key \in ValidKeys THEN st[key] ELSE NilBytes

AddStep(acc, name, err, held) ==
    [acc EXCEPT !.trace = Append(@, Step(name, 0, err, held))]

NoneEmitted(ls) == [i \in 1..Len(ls) |-> <<>>]

\* the outcome of a call through a Store
CallResult(st, r, acc) ==
    [st |-> st, ret |-> r, trace |-> acc.trace, emitted |-> acc.emitted]

\* ------------------------------------------------------------------------
\* listenkv.Store over []types.Listener: writeOperation and the KVStore calls
\* ------------------------------------------------------------------------

\* mutant: the key and the value change places in the record
TraceOperationSwapped(op, key, value, metadata) ==
    [operation |-> op, key |-> EncodeToString(value), value |-> EncodeToString(key),
     metadata |-> metadata]

TraceOperation(op, key, value, metadata) ==
    [operation |-> op, key |-> EncodeToString(key), value |-> EncodeToString(value),
     metadata |-> metadata]

\* mutant: every listener is written to, whatever it allows
RECURSIVE writeOperationFromUngated(_, _, _, _, _, _, _, _)
writeOperationFromUngated(ls, op, key, value, wr, st, i, acc) ==
    IF i > Len(ls) THEN acc
    ELSE IF ~ls[i].marshals
         THEN [acc EXCEPT !.trace = Append(@, Step("marshal", i, TRUE, Held(st, key))),
                          !.panic = TRUE]
    ELSE LET raw == JSONChunk(TraceOperation(op, key, value, ls[i].context))
             a1 == WriterWrite(acc, i, raw, 1, 2, wr[i], Held(st, key))
             a2 == WriterWrite(a1, i, BytesChunk(<<NewlineByte>>), 2, 2, wr[i], Held(st, key))
         IN IF LastWriteFailed(a1) THEN [a1 EXCEPT !.panic = TRUE]
            ELSE writeOperationFromUngated(ls, op, key, value, wr, st, i + 1, a2)

\* the loop body of writeOperation for listeners i, i+1, ...; wr[i] is what
\* listener i's writer does, st the wrapped store at the time of the call
RECURSIVE writeOperationFrom(_, _, _, _, _, _, _, _)
writeOperationFrom(ls, op, key, value, wr, st, i, acc) ==
    IF i > Len(ls) THEN acc
    ELSE IF ~Allowed(ls[i], op, key)
         THEN writeOperationFrom(ls, op, key, value, wr, st, i + 1, acc)
    ELSE IF ~ls[i].marshals
         THEN [acc EXCEPT !.trace = Append(@, Step("marshal", i, TRUE, Held(st, key))),
                          !.panic = TRUE]
    ELSE LET raw == JSONChunk(TraceOperation(op, key, value, ls[i].context))
             a1 == WriterWrite(acc, i, raw, 1, 2, wr[i], Held(st, key))
             a2 == WriterWrite(a1, i, BytesChunk(<<NewlineByte>>), 2, 2, wr[i], Held(st, key))
         IN IF LastWriteFailed(a1) THEN [a1 EXCEPT !.panic = TRUE]
            ELSE writeOperationFrom(ls, op, key, value, wr, st, i + 1, a2)

writeOperation(ls, op, key, value, wr, st, acc) ==
    writeOperationFrom(ls, op, key, value, wr, st, 1, acc)

StoreGet(ls, st, key, wr) ==
    LET p == ParentGet(st, key)
        a0 == AddStep(Emitting(<<>>, NoneEmitted(ls)), "parent", p.ret.panic, Held(st, key))
        w == writeOperation(ls, ReadOp, key, p.ret.bytes, wr, st, a0)
    IN IF p.ret.panic THEN CallResult(st, p.ret, a0)
       ELSE IF w.panic THEN CallResult(st, Panicked("Get"), w)
       ELSE CallResult(st, p.ret, w)

StoreSet(ls, st, key, value, wr) ==
    LET a0 == AddStep(Emitting(<<>>, NoneEmitted(ls)), "assert", ~KeyValid(key), Held(st, key))
        w == writeOperation(ls, WriteOp, key, value, wr, st, a0)
        p == ParentSet(st, key, value)
    IN IF ~KeyValid(key) THEN CallResult(st, Panicked("Set"), a0)
       ELSE IF w.panic THEN CallResult(st, Panicked("Set"), w)
       ELSE CallResult(p.st, p.ret, AddStep(w, "parent", p.ret.panic, Held(p.st, key)))

StoreDelete(ls, st, key, wr) ==
    LET w == writeOperation(ls, DeleteOp, key, NilBytes, wr, st, Emitting(<<>>, NoneEmitted(ls)))
        p == ParentDelete(st, key)
    IN IF w.panic THEN CallResult(st, Panicked("Delete"), w)
       ELSE CallResult(p.st, p.ret, AddStep(w, "parent", p.ret.panic, Held(p.st, key)))

StoreHas(ls, st, key) ==
    LET p == ParentHas(st, key)
    IN CallResult(st, p.ret,
                  AddStep(Emitting(<<>>, NoneEmitted(ls)), "parent", p.ret.panic, Held(st, key)))

\* mutant: the direction asked for is dropped
iteratorAscendingOnly(start, end, ascending) == ParentIterator(start, end)

\* Store.iterator: the parent's cursor, wrapped by newTraceIterator
iterator(start, end, ascending) ==
    IF ascending THEN ParentIterator(start, end) ELSE ParentReverseIterator(start, end)

StoreIterator(start, end) == iterator(start, end, TRUE)

StoreReverseIterator(start, end) == iterator(start, end, FALSE)

\* traceIterator.Valid / Next / Close: [c, ret] of the parent cursor
traceIteratorValid(st, c) == ParentValid(st, c)

traceIteratorNext(st, c) == ParentNext(st, c)

traceIteratorClose(st, c) == ParentClose(st, c)

\* traceIterator.Domain / Error
traceIteratorDomain(st, c) == ParentDomain(st, c)

traceIteratorError(st, c) == ParentError(st, c)

\* mutant: Key emits nothing
traceIteratorKeyQuiet(ls, st, c, wr) ==
    LET p == ParentKey(st, c)
    IN CallResult(st, p.ret,
                  AddStep(Emitting(<<>>, NoneEmitted(ls)), "parent", p.ret.panic, NilBytes))

\* traceIterator.Key: the event carries the key and no value
traceIteratorKey(ls, st, c, wr) ==
    LET p == ParentKey(st, c)
        a0 == AddStep(Emitting(<<>>, NoneEmitted(ls)), "parent", p.ret.panic, NilBytes)
        w == writeOperation(ls, IterKeyOp, p.ret.bytes, NilBytes, wr, st, a0)
    IN IF p.ret.panic THEN CallResult(st, p.ret, a0)
       ELSE IF w.panic THEN CallResult(st, Panicked("Key"), w)
       ELSE CallResult(st, p.ret, w)

\* traceIterator.Value: the event carries the value and a nil key
traceIteratorValue(ls, st, c, wr) ==
    LET p == ParentValue(st, c)
        a0 == AddStep(Emitting(<<>>, NoneEmitted(ls)), "parent", p.ret.panic, NilBytes)
        w == writeOperation(ls, IterValueOp, NilBytes, p.ret.bytes, wr, st, a0)
    IN IF p.ret.panic THEN CallResult(st, p.ret, a0)
       ELSE IF w.panic THEN CallResult(st, Panicked("Value"), w)
       ELSE CallResult(st, p.ret, w)

\* ------------------------------------------------------------------------
\* listenkv.Store over []types.WriteListener: OnWrite, onWrite and the calls
\* ------------------------------------------------------------------------

\* PrefixWriteListener.OnWrite: the slices it hands to writer.Write, in
\* order; both lengths are taken from the key
PrefixWrites(key, value) ==
    LET keyLen == key.len
        valLen == key.len
        prefixBuf == PutUint16(keyLen[2]) \o PutUint32(valLen)
    IN IF WideGreater(keyLen, Wide(MaxUint16)) \/ WideGreater(valLen, MaxUint32) THEN <<>>
       ELSE <<Slice(prefixBuf), key, value>>

\* PrefixWriteListener.OnWrite on listener i's writer; the results of Write
\* are not looked at
PrefixOnWrite(acc, i, key, value, outcome, held) ==
    LET ws == PrefixWrites(Slice(key), Slice(value))
        a1 == WriterWrite(acc, i, BytesChunk(ws[1].bytes), 1, 3, outcome, held)
        a2 == WriterWrite(a1, i, BytesChunk(ws[2].bytes), 2, 3, outcome, held)
        a3 == WriterWrite(a2, i, BytesChunk(ws[3].bytes), 3, 3, outcome, held)
    IN IF ws = <<>> THEN acc ELSE a3

\* mutant: the value is written before the key
NewlineWritesValueFirst(key, value) ==
    LET keyLen == key.len
        keyLenBuf == PutUint16(keyLen[2])
    IN IF WideGreater(keyLen, Wide(MaxUint16)) THEN <<>>
       ELSE <<Slice(keyLenBuf), value, key, Slice(<<NewlineByte>>)>>

\* NewlineWriteListener.OnWrite: the slices it hands to writer.Write, in order
NewlineWrites(key, value) ==
    LET keyLen == key.len
        keyLenBuf == PutUint16(keyLen[2])
    IN IF WideGreater(keyLen, Wide(MaxUint16)) THEN <<>>
       ELSE <<Slice(keyLenBuf), key, value, Slice(<<NewlineByte>>)>>

\* NewlineWriteListener.OnWrite on listener i's writer; the results of Write
\* are not looked at
NewlineOnWrite(acc, i, key, value, outcome, held) ==
    LET ws == NewlineWrites(Slice(key), Slice(value))
        a1 == WriterWrite(acc, i, BytesChunk(ws[1].bytes), 1, 4, outcome, held)
        a2 == WriterWrite(a1, i, BytesChunk(ws[2].bytes), 2, 4, outcome, held)
        a3 == WriterWrite(a2, i, BytesChunk(ws[3].bytes), 3, 4, outcome, held)
        a4 == WriterWrite(a3, i, BytesChunk(ws[4].bytes), 4, 4, outcome, held)
    IN IF ws = <<>> THEN acc ELSE a4

RECURSIVE onWriteFrom(_, _, _, _, _, _, _)
onWriteFrom(ls, key, value, wr, st, i, acc) ==
    IF i > Len(ls) THEN acc
    ELSE onWriteFrom(ls, key, value, wr, st, i + 1,
            IF ls[i].kind = "prefix"
            THEN PrefixOnWrite(acc, i, key, value, wr[i], Held(st, key))
            ELSE NewlineOnWrite(acc, i, key, value, wr[i], Held(st, key)))

onWrite(ls, key, value, wr, st, acc) == onWriteFrom(ls, key, value, wr, st, 1, acc)

WriteStoreGet(ls, st, key) ==
    LET p == ParentGet(st, key)
    IN CallResult(st, p.ret,
                  AddStep(Emitting(<<>>, NoneEmitted(ls)), "parent", p.ret.panic, Held(st, key)))

WriteStoreSet(ls, st, key, value, wr) ==
    LET a0 == AddStep(Emitting(<<>>, NoneEmitted(ls)), "assert", ~KeyValid(key), Held(st, key))
        w == onWrite(ls, key, value, wr, st, a0)
        p == ParentSet(st, key, value)
    IN IF ~KeyValid(key) THEN CallResult(st, Panicked("Set"), a0)
       ELSE CallResult(p.st, p.ret, AddStep(w, "parent", p.ret.panic, Held(p.st, key)))

WriteStoreDelete(ls, st, key, wr) ==
    LET w == onWrite(ls, key, NilBytes, wr, st, Emitting(<<>>, NoneEmitted(ls)))
        p == ParentDelete(st, key)
    IN CallResult(p.st, p.ret, AddStep(w, "parent", p.ret.panic, Held(p.st, key)))

WriteStoreHas(ls, st, key) ==
    LET p == ParentHas(st, key)
    IN CallResult(st, p.ret,
                  AddStep(Emitting(<<>>, NoneEmitted(ls)), "parent", p.ret.panic, Held(st, key)))

\* the cursor of this Store passes Key and Value through
WriteStoreKey(ls, st, c) ==
    LET p == ParentKey(st, c)
    IN CallResult(st, p.ret,
                  AddStep(Emitting(<<>>, NoneEmitted(ls)), "parent", p.ret.panic, NilBytes))

WriteStoreValue(ls, st, c) ==
    LET p == ParentValue(st, c)
    IN CallResult(st, p.ret,
                  AddStep(Emitting(<<>>, NoneEmitted(ls)), "parent", p.ret.panic, NilBytes))

\* ------------------------------------------------------------------------
\* The stores that are built
\* ------------------------------------------------------------------------

FilteredListener(ops, bk, context, marshals) ==
    [ops |-> ops, wk |-> <<>>, wp |-> <<>>, bk |-> bk, bp |-> <<>>,
     context |-> context, marshals |-> marshals]

WriteListenerOf(kind) == [kind |-> kind]

\* NewStore(parent, listeners): the listener lists the model builds a Store with
ListenConfigs ==
    { <<>>,
      <<FilteredListener(Operations, <<>>, "ctxA", TRUE)>>,
      <<FilteredListener({WriteOp, DeleteOp}, << <<1>> >>, "ctxA", TRUE),
        FilteredListener(Operations, <<>>, "ctxB", TRUE)>>,
      <<FilteredListener(Operations, <<>>, "ctxBad", FALSE)>>,
      <<FilteredListener({IterKeyOp, IterValueOp}, << <<1>> >>, "ctxA", TRUE)>> }

WriteConfigs ==
    { <<>>,
      <<WriteListenerOf("prefix")>>,
      <<WriteListenerOf("newline"), WriteListenerOf("prefix")>> }

StoreIdle ==
    /\ version = "listen"
    /\ listeners = <<>>
    /\ parent = EmptyStore
    /\ direct = EmptyStore
    /\ cur = NoCursor
    /\ dcur = NoCursor
    /\ args = NoArgs
    /\ ret = NoReturn
    /\ dret = NoReturn
    /\ trace = <<>>
    /\ emitted = <<>>

NoCall ==
    [done |-> FALSE, op |-> WriteOp, key |-> <<>>, tracing |-> FALSE,
     listening |-> FALSE, keyOnly |-> FALSE, byteSlice |-> FALSE,
     removed |-> "", rem |-> <<>>]

\* the zero Listener: no operation allowed, all lists empty
EmptyListener == [ops |-> {}, wk |-> <<>>, wp |-> <<>>, bk |-> <<>>, bp |-> <<>>]

FilterIdle ==
    /\ lst = EmptyListener
    /\ call = NoCall

\* ------------------------------------------------------------------------
\* StateListener / TransformingStateListener and the FileStreamer
\* ------------------------------------------------------------------------

\* the logical paths sources and destinations are registered under
Paths == {"p", "q"}

\* the emitters: 1 is a StateListener, 2 a TransformingStateListener
Sources == {1, 2}

\* the destination sinks (io.WriteCloser)
Sinks == {1, 2}

\* number of Write calls made on the emitters
MaxFrames == 2

\* the bytes of the k-th Write, made on emitter s
Frame(s, k) == <<s, k>>

\* the transformation added to the TransformingStateListener: it tags the bytes
Tag(bb) == Append(bb, 0)

\* AddTransformation(Tag) was called on emitter 2 and on no other
Transformers(s) == IF s = 2 THEN <<"tag">> ELSE <<>>

\* the functions handed to AddTransformation: "tag" appends a byte and
\* "double" returns the bytes twice, both in a new array; "clear" zeroes the
\* first byte of the slice it is given, in place, and returns that slice
Transformations == {"tag", "double", "clear"}

\* a nil func(b []byte) []byte
NilFunc == "nil"

\* mutant: no copy is made, bb is the caller's slice
CopyOfAliased(b) == [caller |-> b, work |-> b, ref |-> "caller"]

\* bb := make([]byte, len(b)); copy(bb, b): the caller's array, the array the
\* listener works on, and the one bb points to
CopyOf(b) == [caller |-> b, work |-> b, ref |-> "work"]

\* the bytes of the slice bb
Pointee(m) == IF m.ref = "caller" THEN m.caller ELSE m.work

\* bb = t(bb)
Apply(t, m) ==
    CASE t = "tag" -> [m EXCEPT !.work = Tag(Pointee(m)), !.ref = "work"]
      [] t = "double" -> [m EXCEPT !.work = Pointee(m) \o Pointee(m), !.ref = "work"]
      [] t = "clear" ->
           IF Len(Pointee(m)) = 0 THEN m
           ELSE IF m.ref = "caller" THEN [m EXCEPT !.caller[1] = 0]
           ELSE [m EXCEPT !.work[1] = 0]

\* for _, t := range sl.transformers { bb = t(bb) }, from the i-th on
RECURSIVE ApplyFrom(_, _, _)
ApplyFrom(ts, m, i) ==
    IF i > Len(ts) THEN m ELSE ApplyFrom(ts, Apply(ts[i], m), i + 1)

\* the outcome of a Write on a listener: the count and error returned and
\* the bytes handed to the channel (none when nothing was handed over)
Handed(bb) == [n |-> Len(bb), err |-> FALSE, handed |-> TRUE, bytes |-> bb]

NotHanded == [n |-> 0, err |-> TRUE, handed |-> FALSE, bytes |-> <<>>]

\* mutant: the default case reports success
StateListenerWriteQuiet(b, receiving) ==
    IF receiving THEN Handed(b) ELSE [NotHanded EXCEPT !.n = Len(b), !.err = FALSE]

\* StateListener.Write: select { case sl.c <- b: ...; default: ... } on an
\* unbuffered channel; the send case is ready only while a receiver waits
StateListenerWrite(b, receiving) ==
    IF receiving THEN Handed(b) ELSE NotHanded

\* TransformingStateListener.Write: the same select on the transformed copy
\* caller holds the bytes of the caller's slice when Write returns
TransformingStateListenerWrite(b, ts, receiving) ==
    LET m == ApplyFrom(ts, CopyOf(b), 1)
        bb == Pointee(m)
        w == IF receiving THEN Handed(bb) ELSE NotHanded
    IN [n |-> w.n, err |-> w.err, handed |-> w.handed, bytes |-> w.bytes, caller |-> m.caller]

ListenerWrite(s, b, receiving) ==
    IF s = 2 THEN TransformingStateListenerWrite(b, Transformers(s), receiving)
    ELSE StateListenerWrite(b, receiving)

newLineBy == <<NewlineByte>>

NoWrite == [done |-> FALSE, src |-> 0, frame |-> <<>>, receiving |-> FALSE, n |-> 0,
            err |-> FALSE, handed |-> FALSE, bytes |-> <<>>]

\* a goroutine that was not started
NoWriteLoop == [pc |-> "none", by |-> <<>>, idx |-> 1, dsts |-> <<>>]

NoListenLoop == [pc |-> "none", path |-> "", frame |-> <<>>]

\* a sink no call was made on: failed says that a Write on it returned an
\* error, again that Write was called on it after that
OpenSink == [log |-> <<>>, closed |-> FALSE, late |-> 0, failed |-> FALSE, again |-> FALSE]

\* no Close call yet; seen holds, per emitter, the frames accepted when Close
\* was invoked, regd the sinks registered then, failed the sinks whose Close()
\* returned an error and err the sink whose error Close returned (0: nil)
IdleCloser ==
    [pc |-> "idle", todo |-> <<>>, seen |-> [s \in Sources |-> <<>>],
     regd |-> {}, failed |-> <<>>, err |-> 0]

\* NewFileStreamer: an open quit channel and empty maps
NewFileStreamer ==
    /\ sources = [p \in Paths |-> <<>>]
    /\ destinations = [p \in Paths |-> <<>>]
    /\ streaming = FALSE
    /\ quitClosed = FALSE
    /\ wloop = [p \in Paths |-> NoWriteLoop]
    /\ lloop = [s \in Sources |-> NoListenLoop]
    /\ wg = 0
    /\ sink = [d \in Sinks |-> OpenSink]
    /\ closer = IdleCloser
    /\ attempts = 0
    /\ wres = NoWrite
    /\ accepted = [s \in Sources |-> <<>>]
    /\ taken = [s \in Sources |-> <<>>]

\* a streamer all of whose sinks take every Write and Close
StreamIdle ==
    /\ NewFileStreamer
    /\ flaky = {}

\* a write listener before OnWrite is called with key and value
Encoding(key, value) ==
    [key |-> key, value |-> value, called |-> FALSE, by |-> "none", out |-> <<>>]

EncodeIdle == enc = Encoding(Slice(<<>>), Slice(<<>>))

\* ------------------------------------------------------------------------
\* The bank module's tableDecoder (x/bank/keeper/schema.go)
\* ------------------------------------------------------------------------

\* the store keys of x/bank/types: one-byte prefixes for supply, denom
\* metadata and balances, and the two parameter keys "SendEnabled" and
\* "DefaultSendEnabled"
SupplyKey == <<0>>

DenomMetadataPrefix == <<1>>

BalancesPrefix == <<2>>

KeySendEnabled == <<83, 101, 110, 100, 69, 110, 97, 98, 108, 101, 100>>

KeyDefaultSendEnabled == 
    <<68, 101, 102, 97, 117, 108, 116, 83, 101, 110, 100, 69, 110, 97, 98, 108, 101, 100>>

\* a value handed to Decode: nil (the pair was deleted) or present bytes
NilValue == [nil |-> TRUE, bytes |-> <<>>]

Present(b) == [nil |-> FALSE, bytes |-> b]

\* bytes.TrimPrefix
TrimPrefix(s, prefix) ==
    IF BytesHasPrefix(s, prefix) THEN SubSeq(s, Len(prefix) + 1, Len(s)) ELSE s

\* what Decode gives its caller: ([]sdk.TableUpdate, error), or a panic
Updates(us) == [updates |-> us, err |-> FALSE, panic |-> FALSE]

DecodeError == [updates |-> <<>>, err |-> TRUE, panic |-> FALSE]

DecodePanic == [updates |-> <<>>, err |-> FALSE, panic |-> TRUE]

\* sdk.TableUpdate
TableUpdate(table, updateOrReplace, updated, clearedFields) ==
    [Table |-> table, UpdateOrReplace |-> updateOrReplace, Updated |-> updated,
     ClearedFields |-> clearedFields]

\* the proto.Message in Updated: nil, or a row of one of the four tables
NilMessage == [type |-> "nil"]

SupplyTable(amount, denom) == [type |-> "SupplyTable", Amount |-> amount, Denom |-> denom]

BalanceTable(address, denom, balance) ==
    [type |-> "BalanceTable", Address |-> address, Denom |-> denom, Balance |-> balance]

DenomMetadataTable(denom, metadata) ==
    [type |-> "DenomMetadataTable", Denom |-> denom, Metadata |-> metadata]

DenomEnabledTable(denom, enabled) ==
    [type |-> "DenomEnabledTable", Denom |-> denom, Enabled |-> enabled]

\* a nil *sdk.Coin / *types.Metadata
NilPointer == [nil |-> TRUE]

\* sdk.Int.Unmarshal followed by String(): empty data leaves the Int unset,
\* which prints as "<nil>"; decimal text without sign or leading zero is
\* taken as it stands; any other text of the values drawn here is refused
Digits == 48..57

IntUnmarshal(data) ==
    IF Len(data) = 0 THEN [err |-> FALSE, text |-> <<60, 110, 105, 108, 62>>]
    ELSE IF data[1] \in 49..57 /\ \A i \in 1..Len(data) : data[i] \in Digits
         THEN [err |-> FALSE, text |-> data]
    ELSE [err |-> TRUE, text |-> <<>>]

\* the protobuf wire format as far as the messages here use it: a message
\* is a run of length-delimited fields (tag = 8 * number + 2, one length
\* byte, the payload); a field that runs past the end, or a tag of another
\* wire type among the values drawn here, is an error
RECURSIVE ProtoFields(_)
ProtoFields(data) ==
    IF Len(data) = 0 THEN [err |-> FALSE, fields |-> <<>>]
    ELSE IF data[1] % 8 # 2 \/ Len(data) < 2 \/ Len(data) < 2 + data[2]
         THEN [err |-> TRUE, fields |-> <<>>]
    ELSE LET rest == ProtoFields(SubSeq(data, 3 + data[2], Len(data)))
             field == [number |-> data[1] \div 8, payload |-> SubSeq(data, 3, 2 + data[2])]
         IN IF rest.err THEN rest
            ELSE [err |-> FALSE, fields |-> <<field>> \o rest.fields]

\* the payload of the last field numbered n, empty when there is none
RECURSIVE FieldFrom(_, _, _, _)
FieldFrom(fields, n, i, found) ==
    IF i > Len(fields) THEN found
    ELSE FieldFrom(fields, n, i + 1, IF fields[i].number = n THEN fields[i].payload ELSE found)

Field(fields, n) == FieldFrom(fields, n, 1, <<>>)

\* the payloads of every field numbered n, in order
Repeated(fields, n) ==
    LET at == SelectSeq(fields, LAMBDA f : f.number = n)
    IN [i \in 1..Len(at) |-> at[i].payload]

\* cdc.Unmarshal into sdk.Coin: denom = 1, amount = 2 (an sdk.Int)
UnmarshalCoin(data) ==
    LET m == ProtoFields(data)
        amount == IntUnmarshal(Field(m.fields, 2))
    IN IF m.err \/ amount.err THEN [err |-> TRUE, msg |-> NilPointer]
       ELSE [err |-> FALSE,
             msg |-> [nil |-> FALSE, Denom |-> Field(m.fields, 1), Amount |-> amount.text]]

\* cdc.Unmarshal into types.Metadata: description = 1, denom_units = 2
\* (messages), base = 3, display = 4, name = 5, symbol = 6
UnmarshalMetadata(data) ==
    LET m == ProtoFields(data)
        units == Repeated(m.fields, 2)
    IN IF m.err \/ \E i \in 1..Len(units) : ProtoFields(units[i]).err
       THEN [err |-> TRUE, msg |-> NilPointer]
       ELSE [err |-> FALSE,
             msg |-> [nil |-> FALSE, Description |-> Field(m.fields, 1), DenomUnits |-> units,
                      Base |-> Field(m.fields, 3), Display |-> Field(m.fields, 4),
                      Name |-> Field(m.fields, 5), Symbol |-> Field(m.fields, 6)]]

\* the JSON texts drawn here
JSONTrue == <<116, 114, 117, 101>>

JSONFalse == <<102, 97, 108, 115, 101>>

JSONEmptyList == <<91, 93>>

\* [{"denom":"a","enabled":true}]
JSONOneSendEnabled == 
    <<91, 123, 34, 100, 101, 110, 111, 109, 34, 58, 34, 97, 34, 44, 34, 101, 110, 97, 98, 108, 101, 100, 34, 58, 116, 114, 117, 101, 125, 93>>

\* legacyAmino.UnmarshalJSON into a bool: true and false, anything else of
\* the values drawn here is refused
UnmarshalJSONBool(data) ==
    IF data = JSONTrue THEN [err |-> FALSE, value |-> TRUE]
    ELSE IF data = JSONFalse THEN [err |-> FALSE, value |-> FALSE]
    ELSE [err |-> TRUE, value |-> FALSE]

\* legacyAmino.UnmarshalJSON into []*types.SendEnabled
UnmarshalJSONSendEnabled(data) ==
    IF data = JSONEmptyList THEN [err |-> FALSE, value |-> <<>>]
    ELSE IF data = JSONOneSendEnabled
         THEN [err |-> FALSE, value |-> <<[Denom |-> <<97>>, Enabled |-> TRUE]>>]
    ELSE [err |-> TRUE, value |-> <<>>]

decodeSupplyUpdate(key, value) ==
    LET denom == TrimPrefix(key, SupplyKey)
        amount == IntUnmarshal(value.bytes)
    IN IF value.nil
       THEN Updates(<<TableUpdate("Supply", TRUE, SupplyTable(<<>>, denom), <<"Amount">>)>>)
       ELSE IF amount.err THEN DecodeError
       ELSE Updates(<<TableUpdate("Supply", TRUE, SupplyTable(amount.text, denom), <<>>)>>)

\* addrDenomKey[0], addrDenomKey[1 : addrLen+1] and addrDenomKey[addrLen+2:]
\* panic when they reach past the slice (the first past its capacity, here
\* its length: the last, which needs one byte more, then panics anyway);
\* MustUnmarshal panics on a value it cannot decode
decodeBalanceUpdate(key, value) ==
    LET addrDenomKey == TrimPrefix(key, BalancesPrefix)
        addrLen == addrDenomKey[1]
        addr == SubSeq(addrDenomKey, 2, addrLen + 1)
        denom == SubSeq(addrDenomKey, addrLen + 3, Len(addrDenomKey))
        balance == UnmarshalCoin(value.bytes)
    IN IF Len(addrDenomKey) = 0 THEN DecodePanic
       ELSE IF addrLen + 1 > Len(addrDenomKey) THEN DecodePanic
       ELSE IF addrLen + 2 > Len(addrDenomKey) THEN DecodePanic
       ELSE IF value.nil
            THEN Updates(<<TableUpdate("Balance", TRUE, BalanceTable(addr, denom, NilPointer),
                                       <<"Balance">>)>>)
       ELSE IF balance.err THEN DecodePanic
       ELSE Updates(<<TableUpdate("Balance", TRUE, BalanceTable(addr, denom, balance.msg), <<>>)>>)

decodeMetadataUpdate(key, value) ==
    LET denom == TrimPrefix(key, DenomMetadataPrefix)
        metadata == UnmarshalMetadata(value.bytes)
    IN IF value.nil
       THEN Updates(<<TableUpdate("Metadata", TRUE, DenomMetadataTable(denom, NilPointer),
                                  <<"Metadata">>)>>)
       ELSE IF metadata.err THEN DecodePanic
       ELSE Updates(<<TableUpdate("Metadata", TRUE, DenomMetadataTable(denom, metadata.msg),
                                  <<>>)>>)

decodeSendEnabledUpdate(key, value) ==
    LET sendEnables == UnmarshalJSONSendEnabled(value.bytes)
    IN IF value.nil THEN Updates(<<TableUpdate("Enabled", TRUE, NilMessage, <<"Enabled">>)>>)
       ELSE IF sendEnables.err THEN DecodeError
       ELSE Updates([i \in 1..Len(sendEnables.value) |->
                        TableUpdate("Enabled", TRUE,
                                    DenomEnabledTable(sendEnables.value[i].Denom,
                                                      sendEnables.value[i].Enabled), <<>>)])

decodeDefaultSendEnabledUpdate(key, value) ==
    LET defaultSendEnabled == UnmarshalJSONBool(value.bytes)
    IN IF value.nil THEN Updates(<<TableUpdate("Enabled", TRUE, NilMessage, <<"Enabled">>)>>)
       ELSE IF defaultSendEnabled.err THEN DecodeError
       ELSE Updates(<<TableUpdate("Enabled", TRUE,
                                  DenomEnabledTable(<<>>, defaultSendEnabled.value), <<>>)>>)

\* mutant: the two parameter keys are matched as prefixes
MatcherByPrefix(key) ==
    IF BytesHasPrefix(key, SupplyKey) THEN "supply"
    ELSE IF BytesHasPrefix(key, BalancesPrefix) THEN "balance"
    ELSE IF BytesHasPrefix(key, DenomMetadataPrefix) THEN "metadata"
    ELSE IF BytesHasPrefix(key, KeySendEnabled) THEN "sendEnabled"
    ELSE IF BytesHasPrefix(key, KeyDefaultSendEnabled) THEN "defaultSendEnabled"
    ELSE "none"

\* the switch of Decode: the first case that holds of the key
Matcher(key) ==
    IF BytesHasPrefix(key, SupplyKey) THEN "supply"
    ELSE IF BytesHasPrefix(key, BalancesPrefix) THEN "balance"
    ELSE IF BytesHasPrefix(key, DenomMetadataPrefix) THEN "metadata"
    ELSE IF BytesEqual(key, KeySendEnabled) THEN "sendEnabled"
    ELSE IF BytesEqual(key, KeyDefaultSendEnabled) THEN "defaultSendEnabled"
    ELSE "none"

\* tableDecoder.Decode
Decode(key, value) ==
    CASE Matcher(key) = "supply" -> decodeSupplyUpdate(key, value)
      [] Matcher(key) = "balance" -> decodeBalanceUpdate(key, value)
      [] Matcher(key) = "metadata" -> decodeMetadataUpdate(key, value)
      [] Matcher(key) = "sendEnabled" -> decodeSendEnabledUpdate(key, value)
      [] Matcher(key) = "defaultSendEnabled" -> decodeDefaultSendEnabledUpdate(key, value)
      [] OTHER -> Updates(<<>>)

\* a tableDecoder before Decode is called with key and value
Decoding(key, value) ==
    [key |-> key, value |-> value, called |-> FALSE, res |-> Updates(<<>>)]

DecodeIdle == dec = Decoding(<<>>, NilValue)

\* ------------------------------------------------------------------------
\* SpecTransform: a TransformingStateListener, AddTransformation and Write
\* ------------------------------------------------------------------------

MaxTransformers == 3

\* the slices handed to Write
WrittenBytes == {<<>>, <<5>>, <<5, 6>>}

\* NewTransformingStateListener(): no transformers, no Write yet
NoTransformingWrite ==
    [called |-> FALSE, b |-> <<>>, receiving |-> FALSE,
     res |-> [n |-> 0, err |-> FALSE, handed |-> FALSE, bytes |-> <<>>, caller |-> <<>>]]

TransformIdle == tsl = [transformers |-> <<>>, write |-> NoTransformingWrite]

\* ------------------------------------------------------------------------
\* The constructors of Listener and the map of operations a Listener holds
\* ------------------------------------------------------------------------

\* the listeners the program builds
Slots == 1..2

\* a slot no constructor has filled yet
NoListener == [built |-> FALSE, shared |-> FALSE, nilMap |-> FALSE, ops |-> {}]

\* var AllOperations: the five operations
AllOperationsLiteral == Operations

RegistryIdle ==
    /\ AllOperations = AllOperationsLiteral
    /\ made = [i \in Slots |-> NoListener]

\* l.allowedOperations: a map is a reference, so the listener made by
\* NewDefaultStateListener holds the package's map itself
allowedOperations(l, all) == IF l.shared THEN all ELSE l.ops

\* the listener in slot i as Allowed reads it: its operations and four empty lists
ListenerIn(m, all, i) ==
    [ops |-> allowedOperations(m[i], all), wk |-> <<>>, wp |-> <<>>, bk |-> <<>>, bp |-> <<>>]

\* l.Allowed(op, key) of the listener in slot i
AllowedIn(m, all, i, op, key) == m[i].built /\ ListenerAllowed(ListenerIn(m, all, i), op, key)

\* NewDefaultStateListener(w, c): allowedOperations: AllOperations, no lists
NewDefaultStateListener(i) ==
    /\ ~made[i].built
    /\ made' = [made EXCEPT ![i] = [built |-> TRUE, shared |-> TRUE, nilMap |-> FALSE, ops |-> {}]]
    /\ UNCHANGED AllOperations
    /\ UNCHANGED <<filterVars, storeVars, streamVars, encVars, decVars, tslVars>>

\* the maps a caller hands to NewStateListener: nil, or a map of its own making
OwnMaps ==
    {[nilMap |-> TRUE, ops |-> {}], [nilMap |-> FALSE, ops |-> {}],
     [nilMap |-> FALSE, ops |-> {WriteOp, DeleteOp}]}

\* NewStateListener(w, c, ops, nil, nil, nil, nil): allowedOperations: ops
NewStateListener(i, ops) ==
    /\ ~made[i].built
    /\ made' = [made EXCEPT ![i] = [built |-> TRUE, shared |-> FALSE,
                                    nilMap |-> ops.nilMap, ops |-> ops.ops]]
    /\ UNCHANGED AllOperations
    /\ UNCHANGED <<filterVars, storeVars, streamVars, encVars, decVars, tslVars>>

\* l.AllowOperation(op) on the listener in slot i: a nil map is replaced by a
\* new one, then l.allowedOperations[op] = struct{}{} writes into the map held
AllowOperationOn(i, op) ==
    /\ made[i].built
    /\ IF made[i].shared
       THEN /\ AllOperations' = AllOperations \cup {op}
            /\ UNCHANGED made
       ELSE /\ made' = [made EXCEPT ![i].nilMap = FALSE, ![i].ops = @ \cup {op}]
            /\ UNCHANGED AllOperations
    /\ UNCHANGED <<filterVars, storeVars, streamVars, encVars, decVars, tslVars>>

\* l.DisallowOperation(op) on the listener in slot i: delete(l.allowedOperations, op)
\* deletes from the map held; on a nil map it does nothing
DisallowOperationOn(i, op) ==
    /\ made[i].built
    /\ IF made[i].shared
       THEN /\ AllOperations' = AllOperations \ {op}
            /\ UNCHANGED made
       ELSE /\ made' = [made EXCEPT ![i].ops = @ \ {op}]
            /\ UNCHANGED AllOperations
    /\ UNCHANGED <<filterVars, storeVars, streamVars, encVars, decVars, tslVars>>

InitListeners ==
    /\ FilterIdle
    /\ StoreIdle
    /\ StreamIdle
    /\ EncodeIdle
    /\ DecodeIdle
    /\ RegistryIdle
    /\ TransformIdle

NextListeners ==
    \/ \E i \in Slots : NewDefaultStateListener(i)
    \/ \E i \in Slots, ops \in OwnMaps : NewStateListener(i, ops)
    \/ \E i \in Slots, op \in Operations : AllowOperationOn(i, op)
    \/ \E i \in Slots, op \in Operations : DisallowOperationOn(i, op)

SpecListeners == InitListeners /\ [][NextListeners]_vars

\* sl.AddTransformation(t): if t != nil { sl.transformers = append(sl.transformers, t) }
AddTransformation(t) ==
    /\ Len(tsl.transformers) < MaxTransformers
    /\ tsl' = [transformers |-> IF t # NilFunc THEN Append(tsl.transformers, t)
                                ELSE tsl.transformers,
               write |-> NoTransformingWrite]
    /\ UNCHANGED <<filterVars, storeVars, streamVars, encVars, decVars, regVars>>

\* sl.Write(b), with or without a receiver waiting on Output()
TransformingWrite(b, receiving) ==
    /\ tsl' = [tsl EXCEPT !.write =
                  [called |-> TRUE, b |-> b, receiving |-> receiving,
                   res |-> TransformingStateListenerWrite(b, tsl.transformers, receiving)]]
    /\ UNCHANGED <<filterVars, storeVars, streamVars, encVars, decVars, regVars>>

InitTransform ==
    /\ FilterIdle
    /\ StoreIdle
    /\ StreamIdle
    /\ EncodeIdle
    /\ DecodeIdle
    /\ RegistryIdle
    /\ TransformIdle

NextTransform ==
    \/ \E t \in Transformations \cup {NilFunc} : AddTransformation(t)
    \/ \E b \in WrittenBytes, receiving \in BOOLEAN : TransformingWrite(b, receiving)

SpecTransform == InitTransform /\ [][NextTransform]_vars

\* ------------------------------------------------------------------------
\* SpecFilter: configuring a listener and asking it
\* ------------------------------------------------------------------------

Entries(l) == Len(l.wk) + Len(l.wp) + Len(l.bk) + Len(l.bp)

InitFilter ==
    /\ FilterIdle
    /\ StoreIdle
    /\ StreamIdle
    /\ EncodeIdle
    /\ DecodeIdle
    /\ RegistryIdle
    /\ TransformIdle

AllowOperation(op) ==
    /\ op \notin lst.ops
    /\ lst' = [lst EXCEPT !.ops = @ \cup {op}]
    /\ call' = NoCall
    /\ UNCHANGED <<storeVars, streamVars, encVars, decVars, regVars, tslVars>>

DisallowOperation(op) ==
    /\ op \in lst.ops
    /\ lst' = [lst EXCEPT !.ops = @ \ {op}]
    /\ call' = NoCall
    /\ UNCHANGED <<storeVars, streamVars, encVars, decVars, regVars, tslVars>>

AddKeyToWhitelist(key) ==
    /\ Entries(lst) < MaxEntries
    /\ lst' = [lst EXCEPT !.wk = Append(@, key)]
    /\ call' = NoCall
    /\ UNCHANGED <<storeVars, streamVars, encVars, decVars, regVars, tslVars>>

AddPrefixToWhitelist(prefix) ==
    /\ Entries(lst) < MaxEntries
    /\ lst' = [lst EXCEPT !.wp = Append(@, prefix)]
    /\ call' = NoCall
    /\ UNCHANGED <<storeVars, streamVars, encVars, decVars, regVars, tslVars>>

AddKeyToBlacklist(key) ==
    /\ Entries(lst) < MaxEntries
    /\ lst' = [lst EXCEPT !.bk = Append(@, key)]
    /\ call' = NoCall
    /\ UNCHANGED <<storeVars, streamVars, encVars, decVars, regVars, tslVars>>

AddPrefixToBlacklist(prefix) ==
    /\ Entries(lst) < MaxEntries
    /\ lst' = [lst EXCEPT !.bp = Append(@, prefix)]
    /\ call' = NoCall
    /\ UNCHANGED <<storeVars, streamVars, encVars, decVars, regVars, tslVars>>

\* removeFromSlice: a new slice holding the elements of s that differ from rem
removeFromSlice(s, rem) == SelectSeq(s, LAMBDA el : ~BytesEqual(el, rem))

\* Remove...From...: removeFromSlice(l.<list>, x) is called and the slice it
\* returns is not assigned to anything, so the listener keeps its list;
\* call notes which list the removal was asked of, and of what
RemoveFrom(list, x, res) ==
    /\ lst' = lst
    /\ call' = [NoCall EXCEPT !.removed = list, !.rem = x]
    /\ UNCHANGED <<storeVars, streamVars, encVars, decVars, regVars, tslVars>>

RemoveKeyFromWhitelist(key) == RemoveFrom("wk", key, removeFromSlice(lst.wk, key))

RemovePrefixFromWhitelist(prefix) == RemoveFrom("wp", prefix, removeFromSlice(lst.wp, prefix))

RemoveKeyFromBlacklist(key) == RemoveFrom("bk", key, removeFromSlice(lst.bk, key))

RemovePrefixFromBlacklist(prefix) == RemoveFrom("bp", prefix, removeFromSlice(lst.bp, prefix))

\* one key and one operation are put to every version of Allowed
CallAllowed(op, key) ==
    /\ call' = [done |-> TRUE, op |-> op, key |-> key,
                tracing |-> Allowed(lst, op, key),
                listening |-> ListenerAllowed(lst, op, key),
                keyOnly |-> AllowedKey(lst, key),
                byteSlice |-> AllowedByteSlice(lst, key),
                removed |-> "", rem |-> <<>>]
    /\ UNCHANGED <<lst, storeVars, streamVars, encVars, decVars, regVars, tslVars>>

NextFilter ==
    \/ \E op \in Operations : AllowOperation(op)
    \/ \E op \in Operations : DisallowOperation(op)
    \/ \E key \in FilterKeys : AddKeyToWhitelist(key)
    \/ \E prefix \in FilterKeys : AddPrefixToWhitelist(prefix)
    \/ \E key \in FilterKeys : AddKeyToBlacklist(key)
    \/ \E prefix \in FilterKeys : AddPrefixToBlacklist(prefix)
    \/ \E key \in FilterKeys : RemoveKeyFromWhitelist(key)
    \/ \E prefix \in FilterKeys : RemovePrefixFromWhitelist(prefix)
    \/ \E key \in FilterKeys : RemoveKeyFromBlacklist(key)
    \/ \E prefix \in FilterKeys : RemovePrefixFromBlacklist(prefix)
    \/ \E op \in Operations, key \in FilterKeys : CallAllowed(op, key)

SpecFilter == InitFilter /\ [][NextFilter]_vars

\* ------------------------------------------------------------------------
\* SpecStore: calls through a listening Store, mirrored on a direct copy
\* ------------------------------------------------------------------------

InitStore ==
    /\ FilterIdle
    /\ \/ version = "listen" /\ listeners \in ListenConfigs
       \/ version = "write" /\ listeners \in WriteConfigs
    /\ parent = EmptyStore
    /\ direct = EmptyStore
    /\ cur = NoCursor
    /\ dcur = NoCursor
    /\ args = NoArgs
    /\ ret = NoReturn
    /\ dret = NoReturn
    /\ trace = <<>>
    /\ emitted = NoneEmitted(listeners)
    /\ StreamIdle
    /\ EncodeIdle
    /\ DecodeIdle
    /\ RegistryIdle
    /\ TransformIdle

\* a panic ends the run of the caller
Running == ~ret.panic

Outcomes == [1..Len(listeners) -> WriterOutcomes]

\* the effect of a keyed call: r through the Store, d on the direct copy
KeyedCall(r, d, key, value) ==
    /\ args' = Args(key, value)
    /\ parent' = r.st
    /\ ret' = r.ret
    /\ trace' = r.trace
    /\ emitted' = r.emitted
    /\ direct' = d.st
    /\ dret' = d.ret
    /\ UNCHANGED <<version, listeners, cur, dcur>>
    /\ UNCHANGED <<filterVars, streamVars, encVars, decVars, regVars, tslVars>>

\* the effect of a cursor call: c the Store's cursor after it, d on the copy
CursorCall(c, r, d) ==
    /\ args' = NoArgs
    /\ cur' = c
    /\ ret' = r.ret
    /\ trace' = r.trace
    /\ emitted' = r.emitted
    /\ dcur' = d.c
    /\ dret' = d.ret
    /\ UNCHANGED <<version, listeners, parent, direct>>
    /\ UNCHANGED <<filterVars, streamVars, encVars, decVars, regVars, tslVars>>

Quiet(r) == CallResult(parent, r, Emitting(<<>>, NoneEmitted(listeners)))

Get(key) ==
    /\ Running
    /\ \E wr \in Outcomes :
         KeyedCall(IF version = "listen" THEN StoreGet(listeners, parent, key, wr)
                   ELSE WriteStoreGet(listeners, parent, key),
                   ParentGet(direct, key), key, NilBytes)

\* no write is issued while a cursor is open (the KVStore contract)
Set(key, value) ==
    /\ Running /\ ~cur.open
    /\ \E wr \in Outcomes :
         KeyedCall(IF version = "listen" THEN StoreSet(listeners, parent, key, value, wr)
                   ELSE WriteStoreSet(listeners, parent, key, value, wr),
                   ParentSet(direct, key, value), key, value)

Delete(key) ==
    /\ Running /\ ~cur.open
    /\ \E wr \in Outcomes :
         KeyedCall(IF version = "listen" THEN StoreDelete(listeners, parent, key, wr)
                   ELSE WriteStoreDelete(listeners, parent, key, wr),
                   ParentDelete(direct, key), key, NilBytes)

Has(key) ==
    /\ Running
    /\ KeyedCall(IF version = "listen" THEN StoreHas(listeners, parent, key)
                 ELSE WriteStoreHas(listeners, parent, key),
                 ParentHas(direct, key), key, NilBytes)

Iterator(start, end) ==
    /\ Running /\ ~cur.open
    /\ CursorCall(StoreIterator(start, end),
                  Quiet(Returned("Iterator", NilBytes, FALSE)),
                  [c |-> ParentIterator(start, end), ret |-> Returned("Iterator", NilBytes, FALSE)])

ReverseIterator(start, end) ==
    /\ Running /\ ~cur.open
    /\ CursorCall(StoreReverseIterator(start, end),
                  Quiet(Returned("ReverseIterator", NilBytes, FALSE)),
                  [c |-> ParentReverseIterator(start, end),
                   ret |-> Returned("ReverseIterator", NilBytes, FALSE)])

CursorValid ==
    /\ Running /\ cur.open
    /\ LET r == traceIteratorValid(parent, cur)
       IN CursorCall(r.c, Quiet(r.ret), ParentValid(direct, dcur))

CursorNext ==
    /\ Running /\ cur.open
    /\ LET r == traceIteratorNext(parent, cur)
       IN CursorCall(r.c, Quiet(r.ret), ParentNext(direct, dcur))

CursorKey ==
    /\ Running /\ cur.open
    /\ \E wr \in Outcomes :
         CursorCall(cur,
                    IF version = "listen" THEN traceIteratorKey(listeners, parent, cur, wr)
                    ELSE WriteStoreKey(listeners, parent, cur),
                    ParentKey(direct, dcur))

CursorValue ==
    /\ Running /\ cur.open
    /\ \E wr \in Outcomes :
         CursorCall(cur,
                    IF version = "listen" THEN traceIteratorValue(listeners, parent, cur, wr)
                    ELSE WriteStoreValue(listeners, parent, cur),
                    ParentValue(direct, dcur))

CursorClose ==
    /\ Running /\ cur.open
    /\ LET r == traceIteratorClose(parent, cur)
       IN CursorCall(r.c, Quiet(r.ret), ParentClose(direct, dcur))

CursorDomain ==
    /\ Running /\ cur.open
    /\ LET r == traceIteratorDomain(parent, cur)
       IN CursorCall(r.c, Quiet(r.ret), ParentDomain(direct, dcur))

CursorError ==
    /\ Running /\ cur.open
    /\ LET r == traceIteratorError(parent, cur)
       IN CursorCall(r.c, Quiet(r.ret), ParentError(direct, dcur))

NextStore ==
    \/ \E key \in StoreKeys : Get(key)
    \/ \E key \in StoreKeys, value \in StoreValues : Set(key, value)
    \/ \E key \in StoreKeys : Delete(key)
    \/ \E key \in StoreKeys : Has(key)
    \/ \E start \in DomainBounds, end \in DomainBounds : Iterator(start, end)
    \/ \E start \in DomainBounds, end \in DomainBounds : ReverseIterator(start, end)
    \/ CursorValid
    \/ CursorNext
    \/ CursorKey
    \/ CursorValue
    \/ CursorClose
    \/ CursorDomain
    \/ CursorError

SpecStore == InitStore /\ [][NextStore]_vars

\* ------------------------------------------------------------------------
\* SpecStream: registration, Stream, the two loops, Write and Close
\* ------------------------------------------------------------------------

InitStream ==
    /\ FilterIdle
    /\ StoreIdle
    /\ StreamIdle
    /\ EncodeIdle
    /\ DecodeIdle
    /\ RegistryIdle
    /\ TransformIdle

\* a panic of the caller ends the process
Alive == closer.pc # "panicked"

Registered(reg) == UNION {Range(reg[p]) : p \in Paths}

\* the next emitter / sink that is not registered yet, 0 when all are
NextFree(S, reg) ==
    IF S \ Registered(reg) = {} THEN 0
    ELSE CHOOSE x \in S \ Registered(reg) : \A y \in S \ Registered(reg) : x <= y

\* the caller sets the streamer up: neither Stream nor Close was called
Configuring == ~streaming /\ closer.pc = "idle"

\* the caller registers while it sets the streamer up, or after Close returned
Registering == Configuring \/ closer.pc = "returned"

\* AddSource and AddDestination end with `return nil`: no call returns an error
AddSourceErr == FALSE

AddDestinationErr == FALSE

\* CreateDestination returns the error of os.OpenFile
CreateDestinationErr(res) == res = "err"

\* FileStreamer.AddSource: a nil source (0) is not appended; returns nil
AddSource(path, src) ==
    /\ Alive /\ Registering
    /\ sources' = IF src # 0 THEN [sources EXCEPT ![path] = Append(@, src)] ELSE sources
    /\ UNCHANGED <<destinations, streaming, quitClosed, wloop, lloop, wg, sink, closer,
                   attempts, wres, accepted, taken, flaky>>
    /\ UNCHANGED <<filterVars, storeVars, encVars, decVars, regVars, tslVars>>

\* FileStreamer.AddDestination: a nil sink (0) is not appended; returns nil
AddDestination(path, dst) ==
    /\ Alive /\ Registering
    /\ destinations' = IF dst # 0 THEN [destinations EXCEPT ![path] = Append(@, dst)]
                       ELSE destinations
    /\ UNCHANGED <<sources, streaming, quitClosed, wloop, lloop, wg, sink, closer,
                   attempts, wres, accepted, taken, flaky>>
    /\ UNCHANGED <<filterVars, storeVars, encVars, decVars, regVars, tslVars>>

\* what os.OpenFile may return
OpenResults == {"file", "err"}

\* FileStreamer.CreateDestination: the file os.OpenFile returned is appended,
\* its error is returned; file is the sink the opened file is
CreateDestination(path, file) ==
    /\ Alive /\ Registering /\ file # 0
    /\ \E res \in OpenResults :
          destinations' = IF CreateDestinationErr(res) THEN destinations
                          ELSE [destinations EXCEPT ![path] = Append(@, file)]
    /\ UNCHANGED <<sources, streaming, quitClosed, wloop, lloop, wg, sink, closer,
                   attempts, wres, accepted, taken, flaky>>
    /\ UNCHANGED <<filterVars, storeVars, encVars, decVars, regVars, tslVars>>

\* the path a source is registered under
PathOf(s) == CHOOSE p \in Paths : s \in Range(sources[p])

\* FileStreamer.Stream: for every path of fs.destinations one writeLoop and
\* one listenLoop per source of the path are started as goroutines
Stream ==
    /\ Alive /\ Configuring
    /\ streaming' = TRUE
    /\ wloop' = [p \in Paths |->
                    IF destinations[p] # <<>>
                    THEN [NoWriteLoop EXCEPT !.pc = "start", !.dsts = destinations[p]]
                    ELSE NoWriteLoop]
    /\ lloop' = [s \in Sources |->
                    IF s \in Registered(sources) /\ destinations[PathOf(s)] # <<>>
                    THEN [NoListenLoop EXCEPT !.pc = "start", !.path = PathOf(s)]
                    ELSE NoListenLoop]
    /\ UNCHANGED <<sources, destinations, quitClosed, wg, sink, closer,
                   attempts, wres, accepted, taken, flaky>>
    /\ UNCHANGED <<filterVars, storeVars, encVars, decVars, regVars, tslVars>>

\* writeLoop: wg.Add(1), then the select
WriteLoopStart(p) ==
    /\ Alive /\ wloop[p].pc = "start"
    /\ wg' = wg + 1
    /\ wloop' = [wloop EXCEPT ![p].pc = "select"]
    /\ UNCHANGED <<sources, destinations, streaming, quitClosed, lloop, sink, closer,
                   attempts, wres, accepted, taken, flaky>>
    /\ UNCHANGED <<filterVars, storeVars, encVars, decVars, regVars, tslVars>>

\* listenLoop: wg.Add(1), then the for loop
ListenLoopStart(s) ==
    /\ Alive /\ lloop[s].pc = "start"
    /\ wg' = wg + 1
    /\ lloop' = [lloop EXCEPT ![s].pc = "loop"]
    /\ UNCHANGED <<sources, destinations, streaming, quitClosed, wloop, sink, closer,
                   attempts, wres, accepted, taken, flaky>>
    /\ UNCHANGED <<filterVars, storeVars, encVars, decVars, regVars, tslVars>>

\* listenLoop: <-source is evaluated on entering the select, before any case
\* is chosen; the goroutine blocks there until the emitter sends
ListenLoopReceive(s) ==
    /\ Alive /\ lloop[s].pc = "loop"
    /\ lloop' = [lloop EXCEPT ![s].pc = "recv"]
    /\ UNCHANGED <<sources, destinations, streaming, quitClosed, wloop, wg, sink, closer,
                   attempts, wres, accepted, taken, flaky>>
    /\ UNCHANGED <<filterVars, storeVars, encVars, decVars, regVars, tslVars>>

\* Write on emitter s; a listenLoop blocked in <-source is the receiver
SourceWrite(s) ==
    /\ Alive /\ attempts < MaxFrames
    /\ LET receiving == lloop[s].pc = "recv"
           w == ListenerWrite(s, Frame(s, attempts + 1), receiving)
       IN /\ wres' = [done |-> TRUE, src |-> s, frame |-> Frame(s, attempts + 1),
                      receiving |-> receiving, n |-> w.n, err |-> w.err,
                      handed |-> w.handed, bytes |-> w.bytes]
          /\ accepted' = IF w.err THEN accepted
                         ELSE [accepted EXCEPT ![s] = Append(@, w.bytes)]
          /\ taken' = IF w.handed THEN [taken EXCEPT ![s] = Append(@, w.bytes)] ELSE taken
          /\ lloop' = IF w.handed
                      THEN [lloop EXCEPT ![s].pc = "select", ![s].frame = w.bytes]
                      ELSE lloop
    /\ attempts' = attempts + 1
    /\ UNCHANGED <<sources, destinations, streaming, quitClosed, wloop, wg, sink, closer, flaky>>
    /\ UNCHANGED <<filterVars, storeVars, encVars, decVars, regVars, tslVars>>

\* listenLoop, case aggregateChan <- v: the writeLoop of the path receives
ListenForward(s) ==
    /\ Alive /\ lloop[s].pc = "select"
    /\ wloop[lloop[s].path].pc = "select"
    /\ wloop' = [wloop EXCEPT ![lloop[s].path].pc = "write", ![lloop[s].path].by = lloop[s].frame,
                              ![lloop[s].path].idx = 1]
    /\ lloop' = [lloop EXCEPT ![s].pc = "loop", ![s].frame = <<>>]
    /\ UNCHANGED <<sources, destinations, streaming, quitClosed, wg, sink, closer,
                   attempts, wres, accepted, taken, flaky>>
    /\ UNCHANGED <<filterVars, storeVars, encVars, decVars, regVars, tslVars>>

\* listenLoop, case <-fs.quitChan: return (deferred wg.Done)
ListenQuit(s) ==
    /\ Alive /\ lloop[s].pc = "select" /\ quitClosed
    /\ lloop' = [lloop EXCEPT ![s].pc = "done", ![s].frame = <<>>]
    /\ wg' = wg - 1
    /\ UNCHANGED <<sources, destinations, streaming, quitClosed, wloop, sink, closer,
                   attempts, wres, accepted, taken, flaky>>
    /\ UNCHANGED <<filterVars, storeVars, encVars, decVars, regVars, tslVars>>

\* writeLoop, case <-fs.quitChan: return (deferred wg.Done)
WriteLoopQuit(p) ==
    /\ Alive /\ wloop[p].pc = "select" /\ quitClosed
    /\ wloop' = [wloop EXCEPT ![p].pc = "done"]
    /\ wg' = wg - 1
    /\ UNCHANGED <<sources, destinations, streaming, quitClosed, lloop, sink, closer,
                   attempts, wres, accepted, taken, flaky>>
    /\ UNCHANGED <<filterVars, storeVars, encVars, decVars, regVars, tslVars>>

\* mutant: the range over dsts stops after the first destination
NextDstFirstOnly(dsts, idx) == 0

\* the index of the destination written after dsts[idx], 0 at the end
NextDst(dsts, idx) == IF idx < Len(dsts) THEN idx + 1 ELSE 0

\* what Write and Close of a sink may return
SinkResults(d) == IF d \in flaky THEN {"nil", "err"} ELSE {"nil"}

\* mutant: the sink keeps the newest bytes first
SinkWriteNewestFirst(sk, b, res) ==
    [sk EXCEPT !.log = <<b>> \o @,
               !.late = IF sk.closed THEN @ + 1 ELSE @,
               !.failed = @ \/ res = "err",
               !.again = @ \/ sk.failed]

\* the sink after dst.Write(b) returned res
SinkWrite(sk, b, res) ==
    [sk EXCEPT !.log = Append(@, b),
               !.late = IF sk.closed THEN @ + 1 ELSE @,
               !.failed = @ \/ res = "err",
               !.again = @ \/ sk.failed]

\* writeLoop, one turn of: for _, dst := range dsts { dst.Write(append(by, newLineBy...)) };
\* an error of Write is logged and the range goes on
WriteLoopWrite(p) ==
    /\ Alive /\ wloop[p].pc = "write"
    /\ LET d == wloop[p].dsts[wloop[p].idx]
           n == NextDst(wloop[p].dsts, wloop[p].idx)
       IN /\ \E res \in SinkResults(d) :
                sink' = [sink EXCEPT ![d] = SinkWrite(@, wloop[p].by \o newLineBy, res)]
          /\ wloop' = IF n = 0
                      THEN [wloop EXCEPT ![p].pc = "select", ![p].by = <<>>, ![p].idx = 1]
                      ELSE [wloop EXCEPT ![p].idx = n]
    /\ UNCHANGED <<sources, destinations, streaming, quitClosed, lloop, wg, closer,
                   attempts, wres, accepted, taken, flaky>>
    /\ UNCHANGED <<filterVars, storeVars, encVars, decVars, regVars, tslVars>>

\* the orders in which Close may range over the map fs.destinations
CloseOrders ==
    LET both == {destinations["p"] \o destinations["q"], destinations["q"] \o destinations["p"]}
    IN both

\* FileStreamer.Close: close(fs.quitChan); closing a closed channel panics
CloseQuit ==
    /\ Alive /\ closer.pc \in {"idle", "returned"}
    /\ IF quitClosed
       THEN closer' = [closer EXCEPT !.pc = "panicked", !.todo = <<>>] /\ UNCHANGED quitClosed
       ELSE /\ quitClosed' = TRUE
            /\ \E order \in CloseOrders :
                  closer' = [pc |-> "closing", todo |-> order, seen |-> accepted,
                             regd |-> Registered(destinations), failed |-> <<>>, err |-> 0]
    /\ UNCHANGED <<sources, destinations, streaming, wloop, lloop, wg, sink,
                   attempts, wres, accepted, taken, flaky>>
    /\ UNCHANGED <<filterVars, storeVars, encVars, decVars, regVars, tslVars>>

\* if err := dst.Close(); err != nil { return fmt.Errorf(...) }
AfterCloseErr(c, d) ==
    [c EXCEPT !.pc = "returned", !.todo = <<>>, !.failed = Append(@, d), !.err = d]

\* FileStreamer.Close: dst.Close() of the next destination
CloseDst ==
    /\ Alive /\ closer.pc = "closing" /\ closer.todo # <<>>
    /\ sink' = [sink EXCEPT ![Head(closer.todo)].closed = TRUE]
    /\ \E res \in SinkResults(Head(closer.todo)) :
          closer' = IF res = "err" THEN AfterCloseErr(closer, Head(closer.todo))
                    ELSE [closer EXCEPT !.todo = Tail(@)]
    /\ UNCHANGED <<sources, destinations, streaming, quitClosed, wloop, lloop, wg,
                   attempts, wres, accepted, taken, flaky>>
    /\ UNCHANGED <<filterVars, storeVars, encVars, decVars, regVars, tslVars>>

\* FileStreamer.Close: return nil
CloseReturn ==
    /\ Alive /\ closer.pc = "closing" /\ closer.todo = <<>>
    /\ closer' = [closer EXCEPT !.pc = "returned"]
    /\ UNCHANGED <<sources, destinations, streaming, quitClosed, wloop, lloop, wg, sink,
                   attempts, wres, accepted, taken, flaky>>
    /\ UNCHANGED <<filterVars, storeVars, encVars, decVars, regVars, tslVars>>

NextStream ==
    \/ \E path \in Paths : AddSource(path, NextFree(Sources, sources))
    \/ \E path \in Paths : AddDestination(path, NextFree(Sinks, destinations))
    \/ \E path \in Paths : CreateDestination(path, NextFree(Sinks, destinations))
    \/ Stream
    \/ \E p \in Paths : WriteLoopStart(p)
    \/ \E s \in Sources : ListenLoopStart(s)
    \/ \E s \in Sources : ListenLoopReceive(s)
    \/ \E s \in Sources : SourceWrite(s)
    \/ \E s \in Sources : ListenForward(s)
    \/ \E s \in Sources : ListenQuit(s)
    \/ \E p \in Paths : WriteLoopQuit(p)
    \/ \E p \in Paths : WriteLoopWrite(p)
    \/ CloseQuit
    \/ CloseDst
    \/ CloseReturn

SpecStream == InitStream /\ [][NextStream]_vars

InitService ==
    /\ FilterIdle
    /\ StoreIdle
    /\ NewFileStreamer
    /\ flaky = {1}
    /\ EncodeIdle
    /\ DecodeIdle
    /\ RegistryIdle
    /\ TransformIdle

SpecService == InitService /\ [][NextStream]_vars

\* ------------------------------------------------------------------------
\* SpecEncode: one OnWrite call on a PrefixWriteListener or a NewlineWriteListener
\* ------------------------------------------------------------------------

\* the keys OnWrite is called with: short ones, one that is a newline, one
\* of ten bytes, and zero slices of 65535 and of 65536 bytes
EncodeKeys ==
    {Slice(b) : b \in {<<>>, <<1>>, <<2>>, <<1, 2>>, <<2, 1>>, <<1, 2, 3>>, <<NewlineByte>>,
                       <<1, 2, 3, 4, 5, 6, 7, 8, 9, 0>>}}
    \cup {ZeroSlice(Wide(MaxUint16)), ZeroSlice(<<1, 0>>)}

\* the values: nil (a delete), short ones, one holding a newline, and zero
\* slices of 65536, of 2^32 - 1 and of 2^32 bytes
EncodeValues ==
    {Slice(b) : b \in {<<>>, <<7>>, <<8>>, <<7, 8>>, <<7, 8, 9>>, <<7, NewlineByte>>}}
    \cup {ZeroSlice(<<1, 0>>), ZeroSlice(MaxUint32), ZeroSlice(<<MaxUint16 + 1, 0>>)}

InitEncode ==
    /\ FilterIdle
    /\ StoreIdle
    /\ StreamIdle
    /\ \E key \in EncodeKeys, value \in EncodeValues : enc = Encoding(key, value)
    /\ DecodeIdle
    /\ RegistryIdle
    /\ TransformIdle

\* PrefixWriteListener.OnWrite(key, value)
PrefixWriteListenerOnWrite ==
    /\ ~enc.called
    /\ enc' = [enc EXCEPT !.called = TRUE, !.by = "prefix",
                          !.out = PrefixWrites(enc.key, enc.value)]
    /\ UNCHANGED <<filterVars, storeVars, streamVars, decVars, regVars, tslVars>>

\* NewlineWriteListener.OnWrite(key, value)
NewlineWriteListenerOnWrite ==
    /\ ~enc.called
    /\ enc' = [enc EXCEPT !.called = TRUE, !.by = "newline",
                          !.out = NewlineWrites(enc.key, enc.value)]
    /\ UNCHANGED <<filterVars, storeVars, streamVars, decVars, regVars, tslVars>>

NextEncode ==
    \/ PrefixWriteListenerOnWrite
    \/ NewlineWriteListenerOnWrite

SpecEncode == InitEncode /\ [][NextEncode]_vars

\* ------------------------------------------------------------------------
\* SpecDecode: one Decode call on the bank tableDecoder
\* ------------------------------------------------------------------------

\* supply keys: the prefix alone and with a denom
SupplyKeys == {SupplyKey, SupplyKey \o <<97>>, SupplyKey \o <<97, 98>>}

\* balance keys: prefix, length byte, address, denom; also with an empty
\* address, with an empty denom, and cut short
BalanceKeys ==
    {BalancesPrefix \o k : k \in {<<1, 65, 97>>, <<2, 65, 66, 97, 98>>, <<1, 65, 97, 98, 99>>,
                                   <<0, 97>>, <<1, 65>>, <<>>, <<3, 65>>}}

MetadataKeys == {DenomMetadataPrefix, DenomMetadataPrefix \o <<97>>}

\* the two parameter keys, and one with a byte more
EnabledKeys == {KeySendEnabled, KeyDefaultSendEnabled, KeySendEnabled \o <<88>>}

\* keys outside the schema
OtherKeys == {<<>>, <<3>>, <<7, 7>>, SubSeq(KeySendEnabled, 1, 4)}

DecodeKeys == SupplyKeys \cup BalanceKeys \cup MetadataKeys \cup EnabledKeys \cup OtherKeys

\* a coin {denom "a", amount 5}, a coin cut short, a metadata
\* {description "d", base "b"}
CoinBytes == <<10, 1, 97, 18, 1, 53>>

CutCoinBytes == <<10, 5, 97>>

MetadataBytes == <<10, 1, 100, 26, 1, 98>>

\* nil, empty, the texts "5", "12" and "x", the messages and the JSON texts
DecodeValues ==
    {NilValue} \cup
    {Present(b) : b \in {<<>>, <<53>>, <<49, 50>>, <<120>>, CoinBytes, CutCoinBytes,
                         MetadataBytes, JSONTrue, JSONFalse, JSONEmptyList,
                         JSONOneSendEnabled}}

InitDecode ==
    /\ FilterIdle
    /\ StoreIdle
    /\ StreamIdle
    /\ EncodeIdle
    /\ RegistryIdle
    /\ TransformIdle
    /\ \E key \in DecodeKeys, value \in DecodeValues : dec = Decoding(key, value)

\* tableDecoder.Decode(key, value)
TableDecoderDecode ==
    /\ ~dec.called
    /\ dec' = [dec EXCEPT !.called = TRUE, !.res = Decode(dec.key, dec.value)]
    /\ UNCHANGED <<filterVars, storeVars, streamVars, encVars, regVars, tslVars>>

NextDecode == TableDecoderDecode

SpecDecode == InitDecode /\ [][NextDecode]_vars

\* ------------------------------------------------------------------------
\* Properties of the permission filter
\* ------------------------------------------------------------------------

InWhitelist(l, key) ==
    \/ key \in Range(l.wk)
    \/ \E p \in Range(l.wp) : BytesHasPrefix(key, p)

InBlacklist(l, key) ==
    \/ key \in Range(l.bk)
    \/ \E p \in Range(l.bp) : BytesHasPrefix(key, p)

NoWhitelist(l) == l.wk = <<>> /\ l.wp = <<>>

Reference(l, op, key) ==
    /\ op \in l.ops
    /\ NoWhitelist(l) \/ InWhitelist(l, key)
    /\ ~InBlacklist(l, key)

Alice == <<1, 1>>

Bob == <<1, 2>>

AliceOnly(l) ==
    /\ l.ops = {WriteOp}
    /\ l.wk = <<Alice>>
    /\ l.wp = <<>> /\ l.bk = <<>> /\ l.bp = <<>>

\* C1: Allowed(op, key) of both operation-aware listeners equals the reference
\* decision (operation allowed, and no whitelist or whitelisted, and not
\* blacklisted) for every configuration, operation and key; with whitelist
\* {alice}, no blacklist and operations {write}: (write, alice) is allowed,
\* (write, bob) and (read, alice) are denied.
C1_AllowedIsReference ==
    call.done =>
        /\ call.tracing = Reference(lst, call.op, call.key)
        /\ call.listening = Reference(lst, call.op, call.key)
        /\ AliceOnly(lst) =>
              /\ (call.op = WriteOp /\ call.key = Alice) => call.tracing /\ call.listening
              /\ (call.op = WriteOp /\ call.key = Bob) => ~call.tracing /\ ~call.listening
              /\ (call.op = ReadOp /\ call.key = Alice) => ~call.tracing /\ ~call.listening

C1_Witness ==
    /\ call.done /\ AliceOnly(lst)
    /\ call.op = WriteOp /\ call.key = Alice /\ call.tracing /\ call.listening

\* C2: a key that equals a blacklist key or has a blacklist prefix is denied,
\* also when it is whitelisted and the operation is allowed.
C2_BlacklistWins ==
    (call.done /\ InBlacklist(lst, call.key)) => ~call.tracing

C2_Witness ==
    /\ call.done /\ call.op \in lst.ops
    /\ InBlacklist(lst, call.key) /\ InWhitelist(lst, call.key)
    /\ ~call.tracing

\* C3: with both whitelists empty, Allowed is true exactly when the operation
\* is allowed and the key is in no blacklist, for every key, the empty one
\* included.
C3_EmptyWhitelistAllowsAll ==
    (call.done /\ NoWhitelist(lst)) =>
        /\ call.tracing = (call.op \in lst.ops /\ ~InBlacklist(lst, call.key))
        /\ call.keyOnly = ~InBlacklist(lst, call.key)

C3_Witness ==
    /\ call.done /\ NoWhitelist(lst) /\ call.key = <<>>
    /\ lst.bk # <<>> /\ call.tracing /\ call.keyOnly

\* C4: exact-key match and prefix match are combined with OR in each list; a
\* key equal to a blacklist key is denied, and a key equal to a whitelist key
\* counts as whitelisted, whatever the prefix lists hold.
C4_ListsCombinedWithOr ==
    call.done =>
        /\ (call.key \in Range(lst.bk)) => ~call.byteSlice
        /\ (call.key \in Range(lst.wk) /\ ~InBlacklist(lst, call.key)) => call.byteSlice

\* C32: after RemoveKeyFromWhitelist, RemovePrefixFromWhitelist,
\* RemoveKeyFromBlacklist or RemovePrefixFromBlacklist was called with x, the
\* list it names holds no entry equal to x, so a key blacklisted only through
\* the key x is allowed again for an allowed operation on a listener with no
\* whitelist.
C32_RemovalTakesEffect ==
    /\ call.removed = "wk" => call.rem \notin Range(lst.wk)
    /\ call.removed = "wp" => call.rem \notin Range(lst.wp)
    /\ call.removed = "bk" => call.rem \notin Range(lst.bk)
    /\ call.removed = "bp" => call.rem \notin Range(lst.bp)
    /\ (/\ call.removed = "bk" /\ NoWhitelist(lst) /\ lst.bp = <<>>
        /\ \A i \in 1..Len(lst.bk) : lst.bk[i] = call.rem) =>
          \A op \in lst.ops : Allowed(lst, op, call.rem) /\ ListenerAllowed(lst, op, call.rem)

\* what a transformation makes of the bytes b, as a function of b alone
Transformed(t, b) ==
    CASE t = "tag" -> b \o <<0>>
      [] t = "double" -> b \o b
      [] t = "clear" -> [i \in 1..Len(b) |-> IF i = 1 THEN 0 ELSE b[i]]

\* the first k transformations applied to b, the one added first innermost
RECURSIVE TransformedBy(_, _, _)
TransformedBy(ts, b, k) ==
    IF k = 0 THEN b ELSE Transformed(ts[k], TransformedBy(ts, b, k - 1))

\* the last Write left the caller's bytes as they were and, with a receiver
\* waiting, handed over the input transformed by every registered function
\* in the order added (the input itself when none is registered)
WriteHandsTransformedCopy ==
    tsl.write.called =>
        /\ tsl.write.res.caller = tsl.write.b
        /\ tsl.write.receiving =>
              /\ tsl.write.res.handed /\ ~tsl.write.res.err
              /\ tsl.write.res.bytes =
                    TransformedBy(tsl.transformers, tsl.write.b, Len(tsl.transformers))
              /\ tsl.write.res.n = Len(tsl.write.res.bytes)
              /\ tsl.transformers = <<>> => tsl.write.res.bytes = tsl.write.b
        /\ ~tsl.write.receiving => (~tsl.write.res.handed /\ tsl.write.res.err)

\* C35: TransformingStateListener.Write leaves the caller's byte slice
\* unchanged and hands to the channel the result of applying every
\* registered transformation to a copy of the input, in the order the
\* transformations were added; AddTransformation(nil) registers nothing (and
\* every other AddTransformation appends its function); with no
\* transformations the bytes handed over equal the input.
C35_WriteHandsTransformedCopy ==
    [][/\ WriteHandsTransformedCopy'
       /\ AddTransformation(NilFunc) => tsl'.transformers = tsl.transformers
       /\ \A t \in Transformations :
            AddTransformation(t) => tsl'.transformers = Append(tsl.transformers, t)]_vars

C35_Witness ==
    /\ tsl.transformers = <<"clear", "tag", "double">>
    /\ tsl.write.called /\ tsl.write.receiving
    /\ tsl.write.b = <<5, 6>>
    /\ tsl.write.res.caller = <<5, 6>>
    /\ tsl.write.res.bytes = <<0, 6, 0, 0, 6, 0>>

\* a balance key cut short: no length byte, fewer address bytes than the
\* length byte says, or nothing after the address
TruncatedBalanceKey(key) ==
    /\ BytesHasPrefix(key, BalancesPrefix)
    /\ \/ Len(key) = Len(BalancesPrefix)
       \/ Len(key) - Len(BalancesPrefix) - 1 < key[Len(BalancesPrefix) + 1]
       \/ Len(key) - Len(BalancesPrefix) - 1 = key[Len(BalancesPrefix) + 1]

\* C36: for every key that starts with the balances prefix and is truncated,
\* and every value, present or absent, Decode returns updates or an error:
\* it does not fail with an out-of-range access.
C36_DecodeNeverPanicsOnTruncatedKey ==
    (dec.called /\ TruncatedBalanceKey(dec.key)) => ~dec.res.panic

\* the keys Allowed is asked about on the built listeners
AskedKeys == {NilBytes, <<1>>, <<2, 3>>}

\* C33: AllowOperation and DisallowOperation on one listener change neither
\* what Allowed returns on any other listener nor the contents of
\* AllOperations, and a listener just made by NewDefaultStateListener allows
\* every one of the five operations on every key.
C33_OperationSetsArePerListener ==
    [][/\ \A i \in Slots, op \in Operations :
            (AllowOperationOn(i, op) \/ DisallowOperationOn(i, op)) =>
                /\ AllOperations' = AllOperations
                /\ \A j \in Slots \ {i}, o \in Operations, k \in AskedKeys :
                      AllowedIn(made', AllOperations', j, o, k)
                          = AllowedIn(made, AllOperations, j, o, k)
       /\ \A i \in Slots :
            NewDefaultStateListener(i) =>
                \A o \in Operations, k \in AskedKeys : AllowedIn(made', AllOperations', i, o, k)]_vars

\* ------------------------------------------------------------------------
\* Properties of the listening Store
\* ------------------------------------------------------------------------

EmitSteps == {i \in 1..Len(trace) : trace[i].step \in {"write", "marshal"}}

WriteSteps == {i \in 1..Len(trace) : trace[i].step = "write"}

ParentSteps == {i \in 1..Len(trace) : trace[i].step = "parent"}

FailedEmit == \E i \in EmitSteps : trace[i].err

\* C5: with no listener registered, every call through the Store returns what
\* the same call returns on the wrapped store directly and leaves the store
\* and the cursor as the direct call does (same keys, values, iteration order).
C5_TransparentWithoutListeners ==
    listeners = <<>> => (ret = dret /\ parent = direct /\ cur = dcur)

C5_Witness ==
    /\ listeners = <<>> /\ version = "listen"
    /\ ret.name = "Key" /\ ~cur.ascending /\ cur.pos = 2
    /\ ret.bytes = <<1>> /\ dret.bytes = <<1>>

\* C6: in Set and Delete the key is validated first, then the wrapped store
\* is changed, and only then is the event written to the listeners, so a
\* listener is written to when the store already holds the new state.
C6_ValidateMutateEmit ==
    ret.name \in {"Set", "Delete"} =>
        /\ ~KeyValid(args.key) => WriteSteps = {}
        /\ \A i \in WriteSteps :
              /\ \E j \in ParentSteps : j < i
              /\ trace[i].held = args.value

\* C7: when a listener's write or serialization fails during Set or Delete,
\* the wrapped store holds the value for the key (resp. no longer holds the
\* key) after the failure is raised.
C7_FailedEmitKeepsMutation ==
    (ret.name \in {"Set", "Delete"} /\ KeyValid(args.key) /\ FailedEmit) =>
        parent[args.key] = args.value

\* C8: whenever serializing an event or writing any part of its record, the
\* terminating newline included, fails, the store call panics instead of
\* returning normally.
C8_FailedEmitIsLoud ==
    FailedEmit => ret.panic

\* base64.StdEncoding.DecodeString over the digits EncodeToString produces
\* (64 is the padding sign)
RECURSIVE DecodeString(_)
DecodeString(s) ==
    IF Len(s) < 4 THEN <<>>
    ELSE (IF s[3] = 64 THEN <<s[1] * 4 + s[2] \div 16>>
          ELSE IF s[4] = 64
               THEN <<s[1] * 4 + s[2] \div 16, (s[2] % 16) * 16 + s[3] \div 4>>
          ELSE <<s[1] * 4 + s[2] \div 16, (s[2] % 16) * 16 + s[3] \div 4,
                 (s[3] % 4) * 64 + s[4]>>)
         \o DecodeString(SubSeq(s, 5, Len(s)))

\* the event the last call hands to writeOperation
CallEvent ==
    CASE ret.name = "Get" -> [op |-> ReadOp, key |-> args.key, value |-> Held(parent, args.key)]
      [] ret.name = "Set" -> [op |-> WriteOp, key |-> args.key, value |-> args.value]
      [] ret.name = "Delete" -> [op |-> DeleteOp, key |-> args.key, value |-> NilBytes]
      [] ret.name = "Key" ->
           [op |-> IterKeyOp, key |-> ParentKey(parent, cur).ret.bytes, value |-> NilBytes]
      [] ret.name = "Value" ->
           [op |-> IterValueOp, key |-> NilBytes, value |-> ParentValue(parent, cur).ret.bytes]
      [] OTHER -> [op |-> "", key |-> NilBytes, value |-> NilBytes]

\* the last call went as far as writeOperation
ReachedWriteOperation ==
    /\ version = "listen"
    /\ ret.name \in {"Get", "Set", "Delete", "Key", "Value"}
    /\ \A j \in 1..Len(trace) :
          /\ trace[j].step = "assert" => ~trace[j].err
          /\ (trace[j].step = "parent" /\ ret.name \in {"Get", "Key", "Value"}) => ~trace[j].err

\* listener i was reached by the loop and its writer took what it was handed
Served(i) == \A j \in EmitSteps : trace[j].err => trace[j].listener > i

\* C22: for every allowed event whose writes the listener's writer accepts,
\* writeOperation writes to that listener one JSON object with operation =
\* the operation name, key = base64(key), value = base64(value) (the empty
\* string, present, for a delete) and metadata = that listener's context,
\* followed by one newline; decoding the key and value fields gives back the
\* event's key and value.
C22_OneJSONLinePerAllowedEvent ==
    ReachedWriteOperation =>
        \A i \in 1..Len(listeners) :
            (Allowed(listeners[i], CallEvent.op, CallEvent.key) /\ Served(i)) =>
                /\ Len(emitted[i]) = 2
                /\ emitted[i][1].json
                /\ emitted[i][1].object.operation = CallEvent.op
                /\ emitted[i][1].object.key = EncodeToString(CallEvent.key)
                /\ emitted[i][1].object.value = EncodeToString(CallEvent.value)
                /\ DecodeString(emitted[i][1].object.key) = CallEvent.key
                /\ DecodeString(emitted[i][1].object.value) = CallEvent.value
                /\ emitted[i][1].object.metadata = listeners[i].context
                /\ emitted[i][2] = BytesChunk(<<NewlineByte>>)

C22_Witness ==
    /\ ReachedWriteOperation /\ ret.name = "Set" /\ ~ret.panic
    /\ args.key = <<2, 3>> /\ args.value = <<8, 9, 10>>
    /\ Len(listeners) = 2 /\ Len(emitted[1]) = 2 /\ Len(emitted[2]) = 2
    /\ emitted[1][1].object.metadata = "ctxA"
    /\ emitted[2][1].object.metadata = "ctxB"
    /\ emitted[2][1].object.key = <<0, 32, 12, 64>>
    /\ emitted[2][1].object.value = <<2, 0, 36, 10>>

\* the records listener i's writer took during the last call
Records(i) == SelectSeq(emitted[i], LAMBDA c : c.json)

\* the operation a call through the Store is reported as
CallOperation ==
    CASE ret.name = "Get" -> ReadOp
      [] ret.name = "Set" -> WriteOp
      [] ret.name = "Delete" -> DeleteOp
      [] OTHER -> ""

NothingEmitted == \A i \in 1..Len(listeners) : emitted[i] = <<>>

\* the calls that only pass through to the wrapped store or cursor
PassThroughCalls ==
    {"Iterator", "ReverseIterator", "Valid", "Next", "Domain", "Close", "Error"}

\* creating a cursor, Valid, Next, Domain, Close and Error emit nothing and
\* give what the wrapped cursor gives; Has emits nothing
CursorPassesThrough ==
    /\ ret.name \in PassThroughCalls => (NothingEmitted /\ ret = dret /\ cur = dcur)
    /\ ret.name = "Has" => NothingEmitted

\* after Key() or Value() has returned, every listener allowing the event
\* holds exactly one record, of the entry the cursor is on
OneEventPerField ==
    (ret.name \in {"Key", "Value"} /\ ~ret.panic) =>
        /\ ret = dret
        /\ \A i \in 1..Len(listeners) :
              Allowed(listeners[i], CallEvent.op, CallEvent.key) =>
                  /\ Len(Records(i)) = 1
                  /\ Records(i)[1].object.operation =
                        (IF ret.name = "Key" THEN IterKeyOp ELSE IterValueOp)
                  /\ ret.name = "Key" => DecodeString(Records(i)[1].object.key) = ret.bytes
                  /\ ret.name = "Value" => DecodeString(Records(i)[1].object.value) = ret.bytes

\* C24 as claimed: creating a cursor and Valid, Next, Domain, Close, Error
\* emit no event and return the wrapped cursor's result; each Key() emits
\* one IterateKey event and each Value() one IterateValue event for the
\* entry the cursor is on, through either Store; Has emits no event.
C24_CursorEventsPerField ==
    /\ CursorPassesThrough
    /\ version = "listen" => OneEventPerField
    /\ (version = "write" /\ ret.name \in {"Key", "Value"} /\ ~ret.panic) =>
          \A i \in 1..Len(listeners) : Len(emitted[i]) > 0

\* C24 as amended: the same, with one event per Key() and Value() through
\* the Store over []types.Listener only; the cursor of the Store over
\* []types.WriteListener passes Key() and Value() through and emits nothing.
C24_ListenerCursorEventsPerField ==
    /\ CursorPassesThrough
    /\ version = "listen" => OneEventPerField
    /\ (version = "write" /\ ret.name \in {"Key", "Value"}) =>
          (NothingEmitted /\ ret = dret)

C24_Witness ==
    /\ version = "listen" /\ ret.name = "Value" /\ ~ret.panic
    /\ ~cur.ascending /\ cur.pos = 2 /\ ret.bytes = <<8, 9, 10>>
    /\ Len(listeners) = 2 /\ emitted[1] = <<>> /\ Len(Records(2)) = 1
    /\ Records(2)[1].object.operation = IterValueOp
    /\ Records(2)[1].object.key = <<>>

\* C25: Get, Set, Delete and Has validate the key before anything else: with
\* an invalid key the call fails the key-validity assertion, the wrapped
\* store is not called and no listener receives an event.
C25_KeyValidatedFirst ==
    (ret.name \in {"Get", "Set", "Delete", "Has"} /\ ~KeyValid(args.key)) =>
        /\ ret.panic
        /\ \E j \in 1..Len(trace) : trace[j].step = "assert" /\ trace[j].err
        /\ ParentSteps = {}
        /\ NothingEmitted

\* ------------------------------------------------------------------------
\* Properties of the table decoder
\* ------------------------------------------------------------------------

\* a balance key as the bank keeper writes it: the prefix, one length byte
\* L, L address bytes, then the denom
WellFormedBalanceKey(key) ==
    /\ BytesHasPrefix(key, BalancesPrefix)
    /\ Len(key) >= 2
    /\ Len(key) >= 2 + key[2]

BalanceAddress(key) == SubSeq(key, 3, 2 + key[2])

BalanceDenom(key) == SubSeq(key, 3 + key[2], Len(key))

\* the registered matchers in the order of the switch, and whether each
\* holds of a key
Matchers == 1..5

Matches(m, key) ==
    CASE m = 1 -> BytesHasPrefix(key, SupplyKey)
      [] m = 2 -> BytesHasPrefix(key, BalancesPrefix)
      [] m = 3 -> BytesHasPrefix(key, DenomMetadataPrefix)
      [] m = 4 -> key = KeySendEnabled
      [] m = 5 -> key = KeyDefaultSendEnabled

\* what matcher m makes of the pair
HandledBy(m, key, value) ==
    CASE m = 1 -> decodeSupplyUpdate(key, value)
      [] m = 2 -> decodeBalanceUpdate(key, value)
      [] m = 3 -> decodeMetadataUpdate(key, value)
      [] m = 4 -> decodeSendEnabledUpdate(key, value)
      [] m = 5 -> decodeDefaultSendEnabledUpdate(key, value)

\* a key of the schema: under a table prefix (a balance key well formed)
\* or one of the two parameter keys
SchemaKey(key) ==
    /\ \E m \in Matchers : Matches(m, key)
    /\ Matches(2, key) => WellFormedBalanceKey(key)

\* the fields of an Updated row that identify it are those of the key, and
\* its value field is unset
KeyFieldsOnly(key, updated) ==
    CASE Matches(1, key) ->
           /\ updated.type = "SupplyTable"
           /\ updated.Denom = TrimPrefix(key, SupplyKey) /\ updated.Amount = <<>>
      [] Matches(2, key) ->
           /\ updated.type = "BalanceTable"
           /\ updated.Address = BalanceAddress(key) /\ updated.Denom = BalanceDenom(key)
           /\ updated.Balance = NilPointer
      [] Matches(3, key) ->
           /\ updated.type = "DenomMetadataTable"
           /\ updated.Denom = TrimPrefix(key, DenomMetadataPrefix)
           /\ updated.Metadata = NilPointer
      [] OTHER -> updated.type = "DenomEnabledTable"

\* C26: for every key of the schema, Decode(key, nil) yields one update in
\* patch mode (UpdateOrReplace = true) whose ClearedFields is non-empty and
\* whose Updated row carries the key-identifying fields and no value field.
C26_DeletionIsPatchWithKeyFields ==
    (dec.called /\ dec.value.nil /\ SchemaKey(dec.key)) =>
        /\ ~dec.res.panic /\ ~dec.res.err
        /\ Len(dec.res.updates) = 1
        /\ dec.res.updates[1].UpdateOrReplace
        /\ Len(dec.res.updates[1].ClearedFields) > 0
        /\ KeyFieldsOnly(dec.key, dec.res.updates[1].Updated)

\* a present value that the table of the key cannot decode
Malformed(key, value) ==
    /\ ~value.nil
    /\ CASE Matches(1, key) -> IntUnmarshal(value.bytes).err
         [] Matches(2, key) -> UnmarshalCoin(value.bytes).err
         [] Matches(3, key) -> UnmarshalMetadata(value.bytes).err
         [] Matches(4, key) -> UnmarshalJSONSendEnabled(value.bytes).err
         [] Matches(5, key) -> UnmarshalJSONBool(value.bytes).err
         [] OTHER -> FALSE

\* C27: for every key of the schema and every present value that is
\* malformed for its table, Decode returns an error and no updates; it does
\* not panic.
C27_DecodeErrorIsReturned ==
    (dec.called /\ SchemaKey(dec.key) /\ Malformed(dec.key, dec.value)) =>
        /\ ~dec.res.panic
        /\ dec.res.err
        /\ dec.res.updates = <<>>

\* C28: a key that no matcher matches yields no update and no error, for
\* every value; a key that matches is handled by one matcher, the first of
\* the fixed order that matches it.
C28_DispatchOnKeyAlone ==
    dec.called =>
        LET matching == {m \in Matchers : Matches(m, dec.key)}
        IN IF matching = {} THEN dec.res = Updates(<<>>)
           ELSE LET first == CHOOSE m \in matching : \A n \in matching : m <= n
                IN dec.res = HandledBy(first, dec.key, dec.value)

C28_Witness ==
    /\ dec.called /\ dec.key = KeySendEnabled \o <<88>> /\ dec.value = Present(JSONEmptyList)
    /\ dec.res = Updates(<<>>)

\* C29: for every well-formed balance key, with a value absent or present
\* and decodable, the update's Address is exactly the L address bytes and
\* its Denom exactly all bytes after the address.
C29_BalanceKeyPartition ==
    (/\ dec.called
     /\ WellFormedBalanceKey(dec.key)
     /\ dec.value.nil \/ ~UnmarshalCoin(dec.value.bytes).err) =>
        /\ ~dec.res.panic /\ ~dec.res.err
        /\ Len(dec.res.updates) = 1
        /\ dec.res.updates[1].Updated.Address = BalanceAddress(dec.key)
        /\ dec.res.updates[1].Updated.Denom = BalanceDenom(dec.key)

\* ------------------------------------------------------------------------
\* Properties of the listeners' channel and of the FileStreamer
\* ------------------------------------------------------------------------

Occurrences(seq, x) == Cardinality({i \in 1..Len(seq) : seq[i] = x})

\* C9: Write on a StateListener or TransformingStateListener never waits; when
\* a consumer is receiving on Output() the bytes are handed over exactly once
\* and the count is returned with no error, otherwise Write returns 0 and an
\* error and no receive on Output() ever yields those bytes.
C9_NonBlockingHandoff ==
    /\ \A s \in Sources : taken[s] = accepted[s]
    /\ (Alive /\ attempts < MaxFrames) => \A s \in Sources : ENABLED SourceWrite(s)
    /\ wres.done =>
          IF wres.receiving
          THEN /\ ~wres.err /\ wres.n = Len(wres.bytes) /\ wres.n > 0
               /\ Occurrences(taken[wres.src], wres.bytes) = 1
          ELSE /\ wres.err /\ wres.n = 0
               /\ \A i \in 1..Len(taken[wres.src]) :
                     ~BytesHasPrefix(taken[wres.src][i], wres.frame)

C9_Witness ==
    /\ wres.done /\ ~wres.receiving /\ wres.err
    /\ lloop[wres.src].pc = "select"
    /\ Len(taken[wres.src]) = 1

IsPrefix(a, b) == Len(a) <= Len(b) /\ SubSeq(b, 1, Len(a)) = a

\* the frames as writeLoop hands them to a sink
Lines(frames) == [i \in 1..Len(frames) |-> frames[i] \o newLineBy]

\* C10: with a single source and two (or more) sinks under one path, every
\* sink is written the frames the source emitted, in that order, none twice;
\* once the two loops are idle again and Close was not called, every sink
\* has been written all of them.
C10_FanOutInOrder ==
    \A p \in Paths :
        Len(sources[p]) = 1 =>
            \A d \in Range(destinations[p]) :
                /\ IsPrefix(sink[d].log, Lines(accepted[sources[p][1]]))
                /\ (~quitClosed /\ wloop[p].pc = "select" /\ lloop[sources[p][1]].pc = "recv")
                      => sink[d].log = Lines(accepted[sources[p][1]])

C10_Witness ==
    \E p \in Paths :
        /\ Len(sources[p]) = 1 /\ Len(destinations[p]) = 2 /\ ~quitClosed
        /\ Len(accepted[sources[p][1]]) = 2
        /\ \A d \in Range(destinations[p]) : sink[d].log = Lines(accepted[sources[p][1]])

\* C11: once Close has been invoked (the quit channel is closed) no step
\* writes to any sink: neither a frame handed to a source after Close, nor a
\* frame in flight between listenLoop and writeLoop, and so no sink is
\* written after its own Close().
C11_NoWriteAfterClose ==
    [][quitClosed => \A d \in Sinks : sink'[d].log = sink[d].log]_vars

\* a step of one of the goroutines started by Stream
TaskStep ==
    \/ \E p \in Paths : WriteLoopStart(p) \/ WriteLoopQuit(p) \/ WriteLoopWrite(p)
    \/ \E s \in Sources : ListenLoopStart(s) \/ ListenLoopReceive(s) \/ ListenForward(s) \/ ListenQuit(s)

\* the goroutines started by Stream that have not returned
RunningTasks ==
    {<<"writeLoop", p>> : p \in {q \in Paths : wloop[q].pc \notin {"none", "done"}}}
    \cup {<<"listenLoop", s>> : s \in {t \in Sources : lloop[t].pc \notin {"none", "done"}}}

\* C12: after Close has been invoked every writeLoop and listenLoop started by
\* Stream returns; said of finite runs: once Close was invoked and no
\* goroutine has a step left to take without a further Write on a source,
\* every goroutine has returned and the wait group is back at zero.
C12_ShutdownObserved ==
    (quitClosed /\ Alive /\ ~ENABLED TaskStep) => (RunningTasks = {} /\ wg = 0)

\* the Write calls a sink got before its Close() was called
WrittenBeforeClose(d) == SubSeq(sink[d].log, 1, Len(sink[d].log) - sink[d].late)

\* C13: every frame whose Write on a source returned success before Close was
\* invoked has been written to every destination registered for the source's
\* path by the time that destination is closed.
C13_NoFrameDroppedAtShutdown ==
    \A p \in Paths : \A d \in Range(destinations[p]) :
        sink[d].closed =>
            \A s \in Range(sources[p]) : \A i \in 1..Len(closer.seen[s]) :
                \E j \in 1..Len(WrittenBeforeClose(d)) :
                    WrittenBeforeClose(d)[j] = closer.seen[s][i] \o newLineBy

\* C14: no Close call panics, however many Close calls are made on the same
\* streamer: every one of them returns, with or without an error.
C14_CloseNeverPanics == closer.pc # "panicked"

\* C15: when Close returns, Close() has been called on every sink that was
\* registered when Close was invoked, also on those after a sink whose Close()
\* returned an error, and Close returns the first error a sink returned (nil
\* when none did).
C15_CloseClosesEverySink ==
    closer.pc = "returned" =>
        /\ \A d \in closer.regd : sink[d].closed
        /\ closer.err = IF closer.failed = <<>> THEN 0 ELSE closer.failed[1]

\* C16: Closed is terminal: a step taken after Close was invoked leaves the
\* registered sources and destinations as they are, and an AddSource or
\* AddDestination call made then returns an error.
C16_ClosedIsTerminal ==
    [][quitClosed =>
          /\ sources' = sources
          /\ destinations' = destinations
          /\ (\E path \in Paths : AddSource(path, NextFree(Sources, sources))) => AddSourceErr
          /\ (\E path \in Paths : AddDestination(path, NextFree(Sinks, destinations)))
                => AddDestinationErr]_vars

\* sync.WaitGroup.Wait returns as soon as the counter is zero
WaitReturns == wg = 0

\* C17: from the return of Stream until Close is invoked every goroutine
\* Stream started is counted in the caller's wait group, so that waiting on
\* the wait group does not complete in between.
C17_WaitBlocksUntilClose ==
    (streaming /\ ~quitClosed) =>
        /\ wg = Cardinality(RunningTasks)
        /\ RunningTasks # {} => ~WaitReturns

\* C18: once a Write on a destination has returned an error in writeLoop, no
\* later frame is written to that destination.
C18_WriteErrorIsFatal ==
    \A d \in Sinks : sink[d].failed => ~sink[d].again

\* ------------------------------------------------------------------------
\* Properties of the fixed binary framing
\* ------------------------------------------------------------------------

\* a slice all of whose bytes are spelled out
SpelledOut(sl) == sl.len = Wide(Len(sl.bytes))

\* the bytes a writer got, one Write after the other
RECURSIVE Flat(_)
Flat(ws) == IF ws = <<>> THEN <<>> ELSE Head(ws).bytes \o Flat(Tail(ws))

Uint16(b) == b[1] * 256 + b[2]

Undecodable == [ok |-> FALSE, key |-> <<>>, value |-> <<>>]

\* reading a frame back: the two lengths, then that many bytes of key and of
\* value and nothing more
DecodePrefixFrame(f) ==
    LET klen == Uint16(SubSeq(f, 1, 2))
        vhi == Uint16(SubSeq(f, 3, 4))
        vlo == Uint16(SubSeq(f, 5, 6))
    IN IF Len(f) < 6 THEN Undecodable
       ELSE IF vhi > 0 \/ Len(f) # 6 + klen + vlo THEN Undecodable
       ELSE [ok |-> TRUE, key |-> SubSeq(f, 7, 6 + klen),
             value |-> SubSeq(f, 7 + klen, 6 + klen + vlo)]

WithinLimits(key, value) ==
    ~WideGreater(key.len, Wide(MaxUint16)) /\ ~WideGreater(value.len, MaxUint32)

\* C19: for a key of at most 65535 bytes and a value of at most 2^32 - 1
\* bytes OnWrite writes the 2-byte big-endian length of the key, the 4-byte
\* big-endian length of the value, the key and the value, and reading the
\* frame back gives the key and the value.
C19_PrefixFrameRoundTrips ==
    (enc.by = "prefix" /\ WithinLimits(enc.key, enc.value)) =>
        /\ enc.out = <<Slice(PutUint16(enc.key.len[2]) \o PutUint32(enc.value.len)),
                       enc.key, enc.value>>
        /\ (SpelledOut(enc.key) /\ SpelledOut(enc.value)) =>
              LET d == DecodePrefixFrame(Flat(enc.out))
              IN d.ok /\ d.key = enc.key.bytes /\ d.value = enc.value.bytes

\* C20: OnWrite writes nothing at all when the key is longer than 65535
\* bytes or the value longer than 2^32 - 1 bytes, and writes a frame in every
\* other case.
C20_OversizeWritesNothing ==
    enc.by = "prefix" => (enc.out = <<>> <=> ~WithinLimits(enc.key, enc.value))

\* ------------------------------------------------------------------------
\* Properties of the newline-delimited framing
\* ------------------------------------------------------------------------

NoNewline(sl) == \A i \in 1..Len(sl.bytes) : sl.bytes[i] # NewlineByte

\* the index of the first x in f at or after i, 0 when there is none
RECURSIVE IndexFrom(_, _, _)
IndexFrom(f, x, i) ==
    IF i > Len(f) THEN 0 ELSE IF f[i] = x THEN i ELSE IndexFrom(f, x, i + 1)

\* reading a frame back: the length of the key, that many bytes of key, the
\* value up to the first newline, and nothing after it
DecodeNewlineFrame(f) ==
    LET klen == Uint16(SubSeq(f, 1, 2))
        nl == IndexFrom(f, NewlineByte, 3 + klen)
    IN IF Len(f) < 2 THEN Undecodable
       ELSE IF Len(f) < 3 + klen \/ nl # Len(f) THEN Undecodable
       ELSE [ok |-> TRUE, key |-> SubSeq(f, 3, 2 + klen), value |-> SubSeq(f, 3 + klen, nl - 1)]

\* C21 as claimed: for every key and value holding no newline byte OnWrite
\* writes the 2-byte big-endian length of the key, the key, the value and
\* one newline, and reading the frame back gives the key and the value.
C21_NewlineFrameRoundTrips ==
    (enc.by = "newline" /\ NoNewline(enc.key) /\ NoNewline(enc.value)) =>
        /\ enc.out = <<Slice(PutUint16(enc.key.len[2])), enc.key, enc.value,
                       Slice(<<NewlineByte>>)>>
        /\ (SpelledOut(enc.key) /\ SpelledOut(enc.value)) =>
              LET d == DecodeNewlineFrame(Flat(enc.out))
              IN d.ok /\ d.key = enc.key.bytes /\ d.value = enc.value.bytes

\* C21 as amended: the same for every key of at most 65535 bytes and every
\* value, both holding no newline byte.
C21_RoundTripsWithinKeyLimit ==
    (enc.by = "newline" /\ NoNewline(enc.key) /\ NoNewline(enc.value)
        /\ ~WideGreater(enc.key.len, Wide(MaxUint16))) =>
        /\ enc.out = <<Slice(PutUint16(enc.key.len[2])), enc.key, enc.value,
                       Slice(<<NewlineByte>>)>>
        /\ (SpelledOut(enc.key) /\ SpelledOut(enc.value)) =>
              LET d == DecodeNewlineFrame(Flat(enc.out))
              IN d.ok /\ d.key = enc.key.bytes /\ d.value = enc.value.bytes

C21_Witness ==
    /\ enc.by = "newline"
    /\ enc.key = Slice(<<1, 2, 3, 4, 5, 6, 7, 8, 9, 0>>)
    /\ enc.value = Slice(<<7, 8>>)
    /\ Len(enc.out) = 4

\* a is b with some entries left out, the rest in b's order
\* C34: after Value() on a cursor of the listening Store has returned, a
\* listener holds an IterateValue record, carrying the value of the entry the
\* cursor is on, exactly when Allowed(IterValueOp, key of that entry) holds
\* for it: no record reaches a listener for which the entry's key is
\* blacklisted or not whitelisted.
C34_ValueEventFilteredByEntryKey ==
    (version = "listen" /\ ret.name = "Value" /\ ~ret.panic) =>
        LET entry == ParentKey(parent, cur).ret.bytes
        IN \A i \in 1..Len(listeners) :
              /\ ~Allowed(listeners[i], IterValueOp, entry) => emitted[i] = <<>>
              /\ Allowed(listeners[i], IterValueOp, entry) =>
                    /\ Len(Records(i)) = 1
                    /\ Records(i)[1].object.operation = IterValueOp
                    /\ DecodeString(Records(i)[1].object.value) = ret.bytes

RECURSIVE IsSubsequence(_, _)
IsSubsequence(a, b) ==
    IF Len(a) = 0 THEN TRUE
    ELSE IF Len(b) = 0 THEN FALSE
    ELSE IF Head(a) = Head(b) THEN IsSubsequence(Tail(a), Tail(b))
    ELSE IsSubsequence(a, Tail(b))

\* what sink d was written that came from source s (a frame begins with
\* the number of its source)
FromSource(d, s) == SelectSeq(sink[d].log, LAMBDA line : line[1] = s)

\* C31: with several sources under one path, every destination the path was
\* started with is written the frames of each single source in the order
\* that source emitted them, none twice, and all destinations of the path
\* are written the same sequence: a later destination lags the first by at
\* most the frame being written and has the same log once the writeLoop is
\* back at its select.
C31_PerSourceOrderSameSequence ==
    \A p \in Paths :
        Len(sources[p]) > 1 =>
            /\ \A i \in 1..Len(wloop[p].dsts) : \A s \in Range(sources[p]) :
                  IsSubsequence(FromSource(wloop[p].dsts[i], s), Lines(accepted[s]))
            /\ \A i \in 1..Len(wloop[p].dsts) :
                  LET first == sink[wloop[p].dsts[1]].log
                      other == sink[wloop[p].dsts[i]].log
                  IN /\ IsPrefix(other, first)
                     /\ Len(first) <= Len(other) + 1
                     /\ wloop[p].pc # "write" => other = first

C31_Witness ==
    \E p \in Paths :
        /\ Len(sources[p]) = 2 /\ Len(wloop[p].dsts) = 2
        /\ Len(accepted[1]) = 1 /\ Len(accepted[2]) = 1
        /\ \A d \in Range(wloop[p].dsts) :
              /\ Len(sink[d].log) = 2
              /\ FromSource(d, 1) = Lines(accepted[1])
              /\ FromSource(d, 2) = Lines(accepted[2])

\* C30: Stream starts a writeLoop for every path that has a source or a
\* destination and a listenLoop for every source added with AddSource, also
\* for a source whose path has no destination.
C30_StreamStartsEverySource ==
    [][Stream =>
          /\ \A p \in Paths :
                (sources[p] # <<>> \/ destinations[p] # <<>>) => wloop'[p].pc # "none"
          /\ \A s \in Registered(sources) : lloop'[s].pc # "none"]_vars

Spec == SpecFilter

====
